---- MODULE Spec2Model ----
(***************************************************************************)
(* Coordination detection and risk scoring of narrative-graph.             *)
(*                                                                         *)
(*   coordination/detector.py  CoordinationDetector                        *)
(*   risk/components.py        the five risk component functions           *)
(*   risk/engine.py            RiskEngine                                  *)
(*                                                                         *)
(* Floats are modelled as exact rationals <<num, den>> in lowest terms     *)
(* with den > 0; round(x, 4) yields a rational with denominator dividing   *)
(* 10000.  A Python dict is a sequence of keys in insertion order plus a   *)
(* function; a Python set of str iterates in an order fixed by the         *)
(* process's hash seed, so whatever walks a set may meet any order.        *)
(***************************************************************************)
EXTENDS Integers, Sequences, FiniteSets, TLC

VARIABLES
    op,             \* which entry point this behaviour drives
    pc,             \* position of the call: "ready", "returned", "raised"
    posts,          \* list[NormalizedPost] given to the entry point
    narratives,     \* list[NarrativeMetadata] given to calculate_risk
    embeddings,     \* None, or one vector per post (aligned by index)
    run_env,        \* run_all: its arguments, and whether the input file exists
                    \* and the graph store answers
    run_db,         \* the run database: the status of the run's row of runs
                    \* (None before create_run) and its rows of run_steps
    pending,        \* detect_from_posts: the keys of narrative_posts the loop
                    \* of line 82 has yet to take
    init_args,      \* time_window_minutes, similarity_threshold, min_group_size
                    \* as given to CoordinationDetector(...)
    detector,       \* CoordinationDetector fields set by __init__
    all_pairs,      \* list[CoordinatedPair]
    groups,         \* list[CoordinatedGroup]
    result,         \* the value the call returned (None until it returns)
    neo4j,          \* what the graph store holds
    prev_result,    \* the value the previous call on the same input returned
    tlds_given      \* None, or the foreign_tlds argument given to
                    \* calculate_foreign_domain_score

vars == <<op, pc, posts, narratives, embeddings, detector, all_pairs, groups,
          result, neo4j, prev_result, tlds_given,
          init_args, pending, run_env, run_db>>

\* An Optional[...] number, list or record is <<>> for None and <<x>> for x;
\* an Optional[str] is the string itself, or None.
None == "None"
Nil == <<>>
Some(x) == <<x>>

\* ------------------------------------------------------------------------
\* Sequences
\* ------------------------------------------------------------------------

Range(s) == {s[i] : i \in 1..Len(s)}

SeqsUpTo(S, n) == UNION {[1..k -> S] : k \in 0..n}

\* The permutations of a finite set, as sequences.
Perms(S) == {s \in [1..Cardinality(S) -> S] : Range(s) = S}

IndexOf(s, x) == CHOOSE i \in 1..Len(s) : s[i] = x


RECURSIVE SumSeq(_)
SumSeq(s) == IF s = <<>> THEN 0 ELSE Head(s) + SumSeq(Tail(s))

Min2(a, b) == IF a <= b THEN a ELSE b
Max2(a, b) == IF a >= b THEN a ELSE b

\* ------------------------------------------------------------------------
\* Exact rationals standing for Python floats
\* ------------------------------------------------------------------------

Abs(n) == IF n < 0 THEN -n ELSE n

RECURSIVE GCD(_, _)
GCD(a, b) == IF b = 0 THEN a ELSE GCD(b, a % b)

Rat(n, d) ==
    LET g == GCD(Abs(n), Abs(d))
        s == IF d < 0 THEN -1 ELSE 1
    IN  <<(s * n) \div g, (s * d) \div g>>

Zero == <<0, 1>>
One == <<1, 1>>

RAdd(x, y) ==
    LET g == GCD(x[2], y[2])
    IN  Rat(x[1] * (y[2] \div g) + y[1] * (x[2] \div g), (x[2] \div g) * y[2])
RMul(x, y) == Rat(x[1] * y[1], x[2] * y[2])
RDiv(x, y) == Rat(x[1] * y[2], x[2] * y[1])
RLe(x, y) == x[1] * y[2] <= y[1] * x[2]
RLt(x, y) == x[1] * y[2] < y[1] * x[2]
RMin(x, y) == IF RLe(x, y) THEN x ELSE y
RMax(x, y) == IF RLe(x, y) THEN y ELSE x

RECURSIVE RSum(_)
RSum(s) == IF s = <<>> THEN Zero ELSE RAdd(Head(s), RSum(Tail(s)))

RECURSIVE RMaxSeq(_)
RMaxSeq(s) == IF Len(s) = 1 THEN s[1] ELSE RMax(s[1], RMaxSeq(Tail(s)))

RECURSIVE RMinSeq(_)
RMinSeq(s) == IF Len(s) = 1 THEN s[1] ELSE RMin(s[1], RMinSeq(Tail(s)))

RECURSIVE Pow10(_)
Pow10(k) == IF k = 0 THEN 1 ELSE 10 * Pow10(k - 1)

\* round(x, k) of a non-negative x: to the nearest multiple of 10^-k, a tie
\* going to the even neighbour.
Round(x, k) ==
    LET g == GCD(Pow10(k), x[2])
        n == x[1] * (Pow10(k) \div g)
        d == x[2] \div g
        q == n \div d
        r == n % d
        up == 2 * r > d \/ (2 * r = d /\ q % 2 = 1)
    IN  Rat(IF up THEN q + 1 ELSE q, Pow10(k))

\* ------------------------------------------------------------------------
\* Identifiers
\* ------------------------------------------------------------------------

AuthorIds == <<"a1", "a2", "a3", "a4">>
NarrativeIds == <<"n1", "n2">>

\* Python's order on the author-id strings, as sorted() uses it.
StrRank(a) == IndexOf(AuthorIds, a)

\* f"{n:04d}": the decimal digits of n, zero-padded to four places.
RECURSIVE Digits(_)
Digits(n) == IF n < 10 THEN <<n>> ELSE Append(Digits(n \div 10), n % 10)

RECURSIVE ZeroPad(_, _)
ZeroPad(ds, width) == IF Len(ds) >= width THEN ds ELSE ZeroPad(<<0>> \o ds, width)

GroupId(n) == <<"coord_group_">> \o ZeroPad(Digits(n), 4)

\* ------------------------------------------------------------------------
\* CoordinationDetector._build_groups
\* ------------------------------------------------------------------------

\* tuple(sorted([a1, a2]))
PairKey(a1, a2) == IF StrRank(a1) <= StrRank(a2) THEN <<a1, a2>> ELSE <<a2, a1>>

\* The keys of graph, in insertion order: each pair inserts author1, then
\* author2, when not yet present.
RECURSIVE GraphKeys(_, _)
GraphKeys(pairs, keys) ==
    IF pairs = <<>> THEN keys
    ELSE LET p == Head(pairs)
             k1 == IF p.author1_id \in Range(keys) THEN keys
                   ELSE Append(keys, p.author1_id)
             k2 == IF p.author2_id \in Range(k1) THEN k1
                   ELSE Append(k1, p.author2_id)
         IN  GraphKeys(Tail(pairs), k2)

\* A graph built without the reverse edge of line 240.
NeighborsOneWay(pairs, a) ==
    {p.author2_id : p \in {q \in Range(pairs) : q.author1_id = a}}

\* graph[a]: the neighbour set of a.
Neighbors(pairs, a) ==
    {p.author2_id : p \in {q \in Range(pairs) : q.author1_id = a}}
    \cup {p.author1_id : p \in {q \in Range(pairs) : q.author2_id = a}}

\* pair_scores: a later pair with the same key replaces an earlier one.
PairScores(pairs) ==
    LET keys == {PairKey(pairs[i].author1_id, pairs[i].author2_id) : i \in 1..Len(pairs)}
        last(k) == CHOOSE i \in 1..Len(pairs) :
                      /\ PairKey(pairs[i].author1_id, pairs[i].author2_id) = k
                      /\ \A j \in (i + 1)..Len(pairs) :
                            PairKey(pairs[j].author1_id, pairs[j].author2_id) # k
    IN  [k \in keys |-> pairs[last(k)]]

\* A traversal that takes the newest entry of the queue first.
RECURSIVE BFSDepthFirst(_, _, _, _)
BFSDepthFirst(queue, visited, component, pairs) ==
    IF queue = <<>> THEN {[visited |-> visited, component |-> component]}
    ELSE LET author == Head(queue)
             rest == Tail(queue)
         IN  IF author \in visited
             THEN BFSDepthFirst(rest, visited, component, pairs)
             ELSE LET v2 == visited \cup {author}
                      nbrs == {n \in Neighbors(pairs, author) : n \notin v2}
                  IN  UNION {BFSDepthFirst(order \o rest, v2, Append(component, author), pairs) :
                                order \in Perms(nbrs)}

\* The while loop over queue.  "for neighbor in graph[author]" walks a set, so
\* the unvisited neighbours join the queue in any order: the result is the
\* set of [visited, component] the loop can end with.
RECURSIVE BFS(_, _, _, _)
BFS(queue, visited, component, pairs) ==
    IF queue = <<>> THEN {[visited |-> visited, component |-> component]}
    ELSE LET author == Head(queue)
             rest == Tail(queue)
         IN  IF author \in visited
             THEN BFS(rest, visited, component, pairs)
             ELSE LET v2 == visited \cup {author}
                      nbrs == {n \in Neighbors(pairs, author) : n \notin v2}
                  IN  UNION {BFS(rest \o order, v2, Append(component, author), pairs) :
                                order \in Perms(nbrs)}

\* The keys "for i, a1 in enumerate(component): for a2 in component[i + 1:]"
\* finds in pair_scores, in loop order.
ScoredKeys(component, pair_scores) ==
    LET n == Len(component)
        a1(k) == component[((k - 1) \div n) + 1]
        a2(k) == component[((k - 1) % n) + 1]
        sel == SelectSeq([k \in 1..(n * n) |-> k],
                         LAMBDA k : /\ ((k - 1) \div n) < ((k - 1) % n)
                                    /\ PairKey(a1(k), a2(k)) \in DOMAIN pair_scores)
    IN  [k \in 1..Len(sel) |-> PairKey(a1(sel[k]), a2(sel[k]))]

\* The largest pair score in place of the mean.
AvgScoreAsMax(group_scores) ==
    IF group_scores = <<>> THEN Zero ELSE RMaxSeq(group_scores)

\* avg_score = sum(group_scores) / len(group_scores) if group_scores else 0
AvgScore(group_scores) ==
    IF group_scores = <<>> THEN Zero
    ELSE RDiv(RSum(group_scores), <<Len(group_scores), 1>>)

\* The CoordinatedGroup records the component can yield: list(narrative_ids)
\* lists a set, in any order.
MakeGroup(group_id, component, pair_scores) ==
    LET keys == ScoredKeys(component, pair_scores)
        group_scores == [k \in 1..Len(keys) |-> pair_scores[keys[k]].score]
        narrative_ids == {pair_scores[keys[k]].narrative_id : k \in
                             {j \in 1..Len(keys) :
                                 pair_scores[keys[j]].narrative_id \notin {None, ""}}}
        avg_score == AvgScore(group_scores)
    IN  {[id |-> GroupId(group_id),
          author_ids |-> component,
          score |-> avg_score,
          evidence_summary |-> <<Len(component), Round(avg_score, 2)>>,
          narrative_ids |-> order,
          size |-> Len(component)] : order \in Perms(narrative_ids)}

\* A size test that drops a component of exactly min_group_size authors.
LargeEnoughStrict(component, min_group_size) == Len(component) > min_group_size

\* if len(component) >= self.min_group_size
LargeEnough(component, min_group_size) == Len(component) >= min_group_size

\* A loop that never advances group_id.
RECURSIVE ComponentsSameId(_, _, _, _, _, _)
ComponentsSameId(keys, visited, grps, group_id, pairs, min_group_size) ==
    IF keys = <<>> THEN {grps}
    ELSE IF Head(keys) \in visited
    THEN ComponentsSameId(Tail(keys), visited, grps, group_id, pairs, min_group_size)
    ELSE UNION {
            IF LargeEnough(b.component, min_group_size)
            THEN UNION {ComponentsSameId(Tail(keys), b.visited, Append(grps, g),
                                         group_id, pairs, min_group_size) :
                           g \in MakeGroup(group_id, b.component, PairScores(pairs))}
            ELSE ComponentsSameId(Tail(keys), b.visited, grps, group_id, pairs,
                                  min_group_size) :
            b \in BFS(<<Head(keys)>>, visited, <<>>, pairs)}

\* A loop that forgets, between components, which authors were visited.
RECURSIVE ComponentsForgetting(_, _, _, _, _, _)
ComponentsForgetting(keys, visited, grps, group_id, pairs, min_group_size) ==
    IF keys = <<>> THEN {grps}
    ELSE UNION {
            IF LargeEnough(b.component, min_group_size)
            THEN UNION {ComponentsForgetting(Tail(keys), visited, Append(grps, g),
                                             group_id + 1, pairs, min_group_size) :
                           g \in MakeGroup(group_id, b.component, PairScores(pairs))}
            ELSE ComponentsForgetting(Tail(keys), visited, grps, group_id, pairs,
                                      min_group_size) :
            b \in BFS(<<Head(keys)>>, visited, <<>>, pairs)}

\* for start_author in graph: ... groups.append(...); group_id += 1
\* The set of group lists the loop can build.
RECURSIVE Components(_, _, _, _, _, _)
Components(keys, visited, grps, group_id, pairs, min_group_size) ==
    IF keys = <<>> THEN {grps}
    ELSE IF Head(keys) \in visited
    THEN Components(Tail(keys), visited, grps, group_id, pairs, min_group_size)
    ELSE UNION {
            IF LargeEnough(b.component, min_group_size)
            THEN UNION {Components(Tail(keys), b.visited, Append(grps, g),
                                   group_id + 1, pairs, min_group_size) :
                           g \in MakeGroup(group_id, b.component, PairScores(pairs))}
            ELSE Components(Tail(keys), b.visited, grps, group_id, pairs,
                            min_group_size) :
            b \in BFS(<<Head(keys)>>, visited, <<>>, pairs)}

\* An insertion that puts a group before the groups of equal score.
RECURSIVE InsertDescUnstable(_, _)
InsertDescUnstable(sorted, g) ==
    IF sorted = <<>> THEN <<g>>
    ELSE IF RLe(Head(sorted).score, g.score) THEN <<g>> \o sorted
    ELSE <<Head(sorted)>> \o InsertDescUnstable(Tail(sorted), g)

\* groups.sort(key=lambda g: g.score, reverse=True): a stable sort, so groups
\* of equal score keep their order.
RECURSIVE InsertDesc(_, _)
InsertDesc(sorted, g) ==
    IF sorted = <<>> THEN <<g>>
    ELSE IF RLt(Head(sorted).score, g.score) THEN <<g>> \o sorted
    ELSE <<Head(sorted)>> \o InsertDesc(Tail(sorted), g)

RECURSIVE SortByScoreDesc(_, _)
SortByScoreDesc(gs, sorted) ==
    IF gs = <<>> THEN sorted
    ELSE SortByScoreDesc(Tail(gs), InsertDesc(sorted, Head(gs)))

\* The lists _build_groups(pairs) can return.
BuildGroups(pairs, min_group_size) ==
    IF pairs = <<>> THEN {<<>>}
    ELSE {SortByScoreDesc(gs, <<>>) :
             gs \in Components(GraphKeys(pairs, <<>>), {}, <<>>, 0, pairs,
                               min_group_size)}

\* ------------------------------------------------------------------------
\* CoordinationDetector.__init__
\* ------------------------------------------------------------------------

\* settings.coordination (config.py, CoordinationConfig)
DefaultTimeWindowMinutes == 60
DefaultThreshold == <<17, 20>>
DefaultMinGroupSize == 3
TextWeight == <<1, 2>>
DomainWeight == <<3, 10>>
HashtagWeight == <<1, 5>>

\* x or default, for an optional int and an optional float: None, 0 and 0.0
\* are false.
OrInt(x, default) == IF x = Nil \/ x[1] = 0 THEN default ELSE x[1]
OrFloat(x, default) == IF x = Nil \/ x[1][1] = 0 THEN default ELSE x[1]

DetectorInit(time_window_minutes, similarity_threshold, min_group_size) ==
    [time_window |-> 60 * OrInt(time_window_minutes, DefaultTimeWindowMinutes),
     similarity_threshold |-> OrFloat(similarity_threshold, DefaultThreshold),
     min_group_size |-> OrInt(min_group_size, DefaultMinGroupSize),
     text_weight |-> TextWeight,
     domain_weight |-> DomainWeight,
     hashtag_weight |-> HashtagWeight]

\* ------------------------------------------------------------------------
\* CoordinationDetector._calculate_pair_score
\* ------------------------------------------------------------------------

\* A listing that is not deduplicated: an element is named twice.
IterOrderRepeating(S, seed) ==
    LET T == {x \in Range(seed) : x \in S}
    IN  SelectSeq(seed, LAMBDA x : x \in T) \o SelectSeq(seed, LAMBDA x : x \in T)

\* for x in <set of str>: the elements of S in the order the hash seed fixes.
IterOrder(S, seed) == LET T == {x \in Range(seed) : x \in S} IN SelectSeq(seed, LAMBDA x : x \in T)

\* CoordinationEvidence()
EmptyEvidence ==
    [post_ids |-> <<>>, shared_domains |-> <<>>, shared_hashtags |-> <<>>,
     text_similarity |-> Nil, time_delta_seconds |-> Nil]

ISqrt(n) == CHOOSE r \in 0..n : r * r = n

Dot(u, v) == SumSeq([i \in 1..Len(u) |-> u[i] * v[i]])

\* sklearn's cosine_similarity of two rows: each row is divided by its norm
\* (a zero row is left as it is) and the dot product taken.
CosineSimilarity(u, v) ==
    LET nu == ISqrt(Dot(u, u))
        nv == ISqrt(Dot(v, v))
    IN  Rat(Dot(u, v), (IF nu = 0 THEN 1 ELSE nu) * (IF nv = 0 THEN 1 ELSE nv))

\* len(set(x) & set(y)) / max(len(set(x) | set(y)), 1)
Jaccard(x, y) ==
    Rat(Cardinality(Range(x) \cap Range(y)),
        Max2(Cardinality(Range(x) \cup Range(y)), 1))

\* A test that leaves out the post pairs exactly one time window apart.
ProximateStrict(posts1, posts2, time_window) ==
    LET n == Len(posts2)
        i(k) == ((k - 1) \div n) + 1
        j(k) == ((k - 1) % n) + 1
        sel == SelectSeq([k \in 1..(Len(posts1) * n) |-> k],
                  LAMBDA k : Abs(posts1[i(k)][1].timestamp - posts2[j(k)][1].timestamp)
                                < time_window)
    IN  [k \in 1..Len(sel) |-> <<posts1[i(sel[k])], posts2[j(sel[k])]>>]

\* The (i, j) of "for post1 in posts1: for post2 in posts2" whose posts lie
\* within the time window, in loop order.
Proximate(posts1, posts2, time_window) ==
    LET n == Len(posts2)
        i(k) == ((k - 1) \div n) + 1
        j(k) == ((k - 1) % n) + 1
        sel == SelectSeq([k \in 1..(Len(posts1) * n) |-> k],
                  LAMBDA k : Abs(posts1[i(k)][1].timestamp - posts2[j(k)][1].timestamp)
                                <= time_window)
    IN  [k \in 1..Len(sel) |-> <<posts1[i(sel[k])], posts2[j(sel[k])]>>]

\* pair_score of one post pair; each post comes with its index into embeddings.
PostPairScore(pd1, pd2, embs, det) ==
    LET text_sim == IF embs # Nil THEN CosineSimilarity(embs[1][pd1[2]], embs[1][pd2[2]])
                    ELSE Zero
        domain_sim == Jaccard(pd1[1].domains, pd2[1].domains)
        hashtag_sim == Jaccard(pd1[1].hashtags, pd2[1].hashtags)
    IN  RAdd(RAdd(RMul(det.text_weight, text_sim), RMul(det.domain_weight, domain_sim)),
             RMul(det.hashtag_weight, hashtag_sim))

\* scores: the pair_score of every proximate post pair, in loop order.
Scores(posts1, posts2, embs, det) ==
    LET near == Proximate(posts1, posts2, det.time_window)
    IN  SelectSeq([k \in 1..Len(near) |-> PostPairScore(near[k][1], near[k][2], embs, det)],
                  LAMBDA x : TRUE)

\* A score that averages the pair scores instead of taking the largest.
PairScoreAsMean(posts1, posts2, embs, det) ==
    LET scores == Scores(posts1, posts2, embs, det)
    IN  IF scores = <<>> THEN Zero ELSE RDiv(RSum(scores), Rat(Len(scores), 1))

\* The score _calculate_pair_score returns.
PairScore(posts1, posts2, embs, det) ==
    LET scores == Scores(posts1, posts2, embs, det)
    IN  IF scores = <<>> THEN Zero ELSE RMaxSeq(scores)

\* The evidence _calculate_pair_score returns; list(set(...)) lists each set
\* in the order the hash seed fixes.
PairEvidence(posts1, posts2, embs, det, seed) ==
    LET near == Proximate(posts1, posts2, det.time_window)
        scores == Scores(posts1, posts2, embs, det)
        last == near[Len(near)]
        post_ids == UNION {{near[k][1][1].id, near[k][2][1].id} : k \in 1..Len(near)}
        shared_domains ==
            UNION {Range(near[k][1][1].domains) \cap Range(near[k][2][1].domains) :
                      k \in 1..Len(near)}
        shared_hashtags ==
            UNION {Range(near[k][1][1].hashtags) \cap Range(near[k][2][1].hashtags) :
                      k \in 1..Len(near)}
    IN  IF scores = <<>> THEN EmptyEvidence
        ELSE [post_ids |-> IterOrder(post_ids, seed),
              shared_domains |-> IterOrder(shared_domains, seed),
              shared_hashtags |-> IterOrder(shared_hashtags, seed),
              text_similarity |-> Some(RMaxSeq(scores)),
              time_delta_seconds |->
                  Some(Abs(last[1][1].timestamp - last[2][1].timestamp))]

CalculatePairScore(posts1, posts2, embs, det, seed) ==
    [score |-> PairScore(posts1, posts2, embs, det),
     evidence |-> PairEvidence(posts1, posts2, embs, det, seed)]

\* ------------------------------------------------------------------------
\* CoordinationDetector._detect_pairs_in_narrative
\* ------------------------------------------------------------------------

\* The distinct values of f over s, in order of first occurrence: the keys of
\* a dict filled by walking s.
RECURSIVE FirstSeen(_, _)
FirstSeen(s, keys) ==
    IF s = <<>> THEN keys
    ELSE FirstSeen(Tail(s),
                   IF Head(s) \in Range(keys) THEN keys ELSE Append(keys, Head(s)))

AuthorOf(pd) == pd[1].author_id

\* A test that drops a pair whose score equals the threshold.
RetainedStrict(score, similarity_threshold) == RLt(similarity_threshold, score)

\* if score >= self.similarity_threshold
Retained(score, similarity_threshold) == RLe(similarity_threshold, score)

\* An inner loop over every author instead of author_ids[i + 1:].
ComparedAll(i, j) == TRUE

\* for i, author1 in enumerate(author_ids): for author2 in author_ids[i + 1:]
Compared(i, j) == i < j

DetectPairsInNarrative(post_data, embs, narrative_id, det, seed) ==
    LET author_ids == FirstSeen([k \in 1..Len(post_data) |-> AuthorOf(post_data[k])], <<>>)
        author_posts(a) == SelectSeq(post_data, LAMBDA pd : pd[1].author_id = a)
        n == Len(author_ids)
        i(k) == ((k - 1) \div n) + 1
        j(k) == ((k - 1) % n) + 1
        cand == SelectSeq([k \in 1..(n * n) |-> k], LAMBDA k : Compared(i(k), j(k)))
        scored == [m \in 1..Len(cand) |->
                     LET c == CalculatePairScore(author_posts(author_ids[i(cand[m])]),
                                                 author_posts(author_ids[j(cand[m])]),
                                                 embs, det, seed)
                     IN  [author1_id |-> author_ids[i(cand[m])],
                          author2_id |-> author_ids[j(cand[m])],
                          score |-> c.score,
                          evidence |-> c.evidence,
                          narrative_id |-> narrative_id]]
    IN  SelectSeq(scored, LAMBDA p : Retained(p.score, det.similarity_threshold))

\* ------------------------------------------------------------------------
\* CoordinationDetector.detect_from_posts, lines 73-89
\* ------------------------------------------------------------------------

\* A test that takes the "noise" sentinel for a narrative id.
ClusteredOrNoise(post) == post.narrative_id \notin {None, ""}

\* if post.narrative_id and post.narrative_id != "noise"
Clustered(post) == post.narrative_id \notin {None, "", "noise"}

\* [(post, idx) for idx, post in enumerate(posts)]
Enumerate(ps) == [i \in 1..Len(ps) |-> <<ps[i], i>>]

NarrativeOf(pd) == pd[1].narrative_id

RECURSIVE ExtendPairs(_, _, _, _, _, _)
ExtendPairs(narrative_ids, clustered, embs, det, seed, pairs) ==
    IF narrative_ids = <<>> THEN pairs
    ELSE LET post_data == SelectSeq(clustered,
                                    LAMBDA pd : pd[1].narrative_id = Head(narrative_ids))
         IN  ExtendPairs(Tail(narrative_ids), clustered, embs, det, seed,
                 IF Len(post_data) < 2 THEN pairs
                 ELSE pairs \o DetectPairsInNarrative(post_data, embs,
                                                      Head(narrative_ids), det, seed))

AllPairs(ps, embs, det, seed) ==
    LET clustered == SelectSeq(Enumerate(ps), LAMBDA pd : Clustered(pd[1]))
    IN  ExtendPairs(FirstSeen([k \in 1..Len(clustered) |-> NarrativeOf(clustered[k])],
                              <<>>),
                    clustered, embs, det, seed, <<>>)

\* ------------------------------------------------------------------------
\* CoordinationDetector._store_coordination and detect_from_posts
\* ------------------------------------------------------------------------

\* The ways _store_coordination(pairs) can end: nothing is written for an
\* empty list; otherwise execute_batch_write and then execute_write run, and
\* either may raise (the graph store is a network service).
StoreCoordination(pairs, store) ==
    IF pairs = <<>> THEN {[raised |-> FALSE, neo4j |-> store]}
    ELSE LET batch == [query |-> "CREATE_COORDINATED_WITH_BATCH", batch |-> pairs]
             update == [query |-> "update_author_scores", batch |-> <<>>]
         IN  {[raised |-> TRUE, neo4j |-> store],
              [raised |-> TRUE, neo4j |-> Append(store, batch)],
              [raised |-> FALSE, neo4j |-> store \o <<batch, update>>]}

\* ------------------------------------------------------------------------
\* cli/commands.py: run_all and the run database
\* ------------------------------------------------------------------------

\* The steps of run_all, in the order of its calls.
Steps ==
    <<"ingest", "enrich", "cluster", "build-graph", "detect-coordination",
      "score-risk", "explain">>

\* The position after a step has returned: the next call, or complete_run.
After(step) ==
    LET k == CHOOSE i \in 1..Len(Steps) : Steps[i] = step
    IN  IF k = Len(Steps) THEN "complete_run" ELSE Steps[k + 1]

\* A run_all that goes on to the next step when a step has raised.
StepOutcomesContinuing(db, step) ==
    LET started == [db EXCEPT !.run_steps =
                        Append(@, [step_name |-> step, status |-> "running"])]
    IN  {[pc |-> After(step), run_db |-> started],
         [pc |-> After(step),
          run_db |-> [started EXCEPT !.run_steps[Len(started.run_steps)].status =
                                         "completed"]]}

\* A step that raises before start_step, raises after it, or returns.
\* start_step inserts a row with status running and complete_step sets it to
\* completed; an Exception reaches run_all, whose handler calls fail_run and
\* raises typer.Exit(1).  fail_run updates the row of the run, if there is one.
StepOutcomes(db, step) ==
    LET started == [db EXCEPT !.run_steps =
                        Append(@, [step_name |-> step, status |-> "running"])]
        failed(d) == IF d.runs = None THEN d ELSE [d EXCEPT !.runs = "failed"]
    IN  {[pc |-> "failed", run_db |-> failed(db)],
         [pc |-> "failed", run_db |-> failed(started)],
         [pc |-> After(step),
          run_db |-> [started EXCEPT !.run_steps[Len(started.run_steps)].status =
                                         "completed"]]}

\* ------------------------------------------------------------------------
\* Strings, character by character
\* ------------------------------------------------------------------------

\* The characters of each str the model uses.
Spelling ==
    "hate" :> <<"h", "a", "t", "e">> @@
    "kill" :> <<"k", "i", "l", "l">> @@
    "die" :> <<"d", "i", "e">> @@
    "attack" :> <<"a", "t", "t", "a", "c", "k">> @@
    "destroy" :> <<"d", "e", "s", "t", "r", "o", "y">> @@
    "enemy" :> <<"e", "n", "e", "m", "y">> @@
    "threat" :> <<"t", "h", "r", "e", "a", "t">> @@
    "dangerous" :> <<"d", "a", "n", "g", "e", "r", "o", "u", "s">> @@
    "evil" :> <<"e", "v", "i", "l">> @@
    "corrupt" :> <<"c", "o", "r", "r", "u", "p", "t">> @@
    "conspiracy" :> <<"c", "o", "n", "s", "p", "i", "r", "a", "c", "y">> @@
    "hoax" :> <<"h", "o", "a", "x">> @@
    "fake" :> <<"f", "a", "k", "e">> @@
    "propaganda" :> <<"p", "r", "o", "p", "a", "g", "a", "n", "d", "a">> @@
    "lies" :> <<"l", "i", "e", "s">> @@
    "traitor" :> <<"t", "r", "a", "i", "t", "o", "r">> @@
    "invasion" :> <<"i", "n", "v", "a", "s", "i", "o", "n">> @@
    "war" :> <<"w", "a", "r">> @@
    "Hate!" :> <<"H", "a", "t", "e", "!">> @@
    "hello" :> <<"h", "e", "l", "l", "o">> @@
    "war." :> <<"w", "a", "r", ".">> @@
    "u1" :> <<"u", "1">> @@
    "x.ru" :> <<"x", ".", "r", "u">> @@
    "y.com" :> <<"y", ".", "c", "o", "m">> @@
    "ru" :> <<"r", "u">> @@
    ".ru" :> <<".", "r", "u">> @@
    ".cn" :> <<".", "c", "n">> @@
    ".ir" :> <<".", "i", "r">> @@
    "d1" :> <<"d", "1">> @@
    "a.com" :> <<"a", ".", "c", "o", "m">> @@
    "b.ru" :> <<"b", ".", "r", "u">> @@
    "c.cn" :> <<"c", ".", "c", "n">>

Chars(s) == Spelling[s]

UpperLetters ==
    <<"A", "B", "C", "D", "E", "F", "G", "H", "I", "J", "K", "L", "M",
      "N", "O", "P", "Q", "R", "S", "T", "U", "V", "W", "X", "Y", "Z">>
LowerLetters ==
    <<"a", "b", "c", "d", "e", "f", "g", "h", "i", "j", "k", "l", "m",
      "n", "o", "p", "q", "r", "s", "t", "u", "v", "w", "x", "y", "z">>
DigitChars == <<"0", "1", "2", "3", "4", "5", "6", "7", "8", "9">>

\* str.lower(), one character at a time
Lower(cs) ==
    [i \in 1..Len(cs) |->
        IF \E j \in 1..Len(UpperLetters) : UpperLetters[j] = cs[i]
        THEN LowerLetters[IndexOf(UpperLetters, cs[i])]
        ELSE cs[i]]

AlnumChars == Range(UpperLetters) \cup Range(LowerLetters) \cup Range(DigitChars)

\* c.isalnum()
IsAlnum(c) == c \in AlnumChars

\* domain.endswith(tld)
EndsWith(cs, suffix) ==
    /\ Len(suffix) <= Len(cs)
    /\ SubSeq(cs, Len(cs) - Len(suffix) + 1, Len(cs)) = suffix

\* sorted(...) of a list of numbers
RECURSIVE InsertAsc(_, _)
InsertAsc(sorted, x) ==
    IF sorted = <<>> THEN <<x>>
    ELSE IF x < Head(sorted) THEN <<x>> \o sorted
    ELSE <<Head(sorted)>> \o InsertAsc(Tail(sorted), x)

RECURSIVE Sorted(_)
Sorted(s) == IF s = <<>> THEN <<>> ELSE InsertAsc(Sorted(SubSeq(s, 1, Len(s) - 1)), s[Len(s)])

\* ------------------------------------------------------------------------
\* risk/components.py
\* ------------------------------------------------------------------------

\* timedelta(minutes=15), in seconds
BurstWindow == 900

\* A velocity that counts the intervals between the posts, one fewer than
\* the posts, over the span.
VelocityOfIntervals(timestamps) ==
         LET n == Len(timestamps)
             time_span == timestamps[n] - timestamps[1]
             per_hour == Rat((n - 1) * 3600, time_span)
         IN  IF time_span <= 0 THEN One
             ELSE Round(RMin(RDiv(per_hour, <<10, 1>>), One), 4)

\* calculate_velocity_score, from the sorted timestamps on (lines 37-66)
VelocityOf(timestamps) ==
         LET n == Len(timestamps)
             time_span == timestamps[n] - timestamps[1]
             posts_per_hour == Rat(n * 3600, time_span)
             score == RMin(RDiv(posts_per_hour, <<10, 1>>), One)
             window_posts(i) ==
                 Cardinality({j \in i..n : timestamps[j] - timestamps[i] <= BurstWindow})
             burst_count == Cardinality({i \in 1..n : window_posts(i) >= 5})
             burst_ratio == Rat(burst_count, n)
         IN  IF time_span <= 0 THEN One
             ELSE Round(RMin(RAdd(score, RMul(burst_ratio, <<1, 5>>)), One), 4)

\* A velocity that tests the time span before the number of posts: posts
\* that span no time, none at all among them, score 1.0.
CalculateVelocityScoreSpanFirst(ps) ==
    IF Len(ps) = 0 THEN One
    ELSE IF Len(ps) < 2 THEN Zero
    ELSE VelocityOf(Sorted([i \in 1..Len(ps) |-> ps[i].timestamp]))

\* calculate_velocity_score(posts, narrative)
CalculateVelocityScore(ps) ==
    IF Len(ps) < 2 THEN Zero
    ELSE \* timestamps = sorted([p.timestamp for p in posts])
         CHOOSE score \in {VelocityOf(timestamps) :
                              timestamps \in {Sorted([i \in 1..Len(ps) |-> ps[i].timestamp])}} :
            TRUE

\* A combined score returned as it is.
Uncapped(score) == score

\* min(score, 1.0)
Capped(score) == RMin(score, One)

\* A test that takes every group for one of the narrative.
ListsAny(g, narrative_id) == TRUE

\* if narrative_id in g.narrative_ids
Lists(g, narrative_id) == narrative_id \in Range(g.narrative_ids)

\* calculate_coordination_score(narrative_id, groups, total_authors)
CalculateCoordinationScore(narrative_id, gs, total_authors) ==
    LET relevant_groups == SelectSeq(gs, LAMBDA g : Lists(g, narrative_id))
        coordinated_authors ==
            UNION {Range(relevant_groups[k].author_ids) : k \in 1..Len(relevant_groups)}
        total_group_score ==
            RSum([k \in 1..Len(relevant_groups) |->
                     RMul(relevant_groups[k].score, <<relevant_groups[k].size, 1>>)])
        coordination_ratio == Rat(Cardinality(coordinated_authors), total_authors)
        avg_group_score ==
            IF coordinated_authors # {}
            THEN RDiv(total_group_score, <<Cardinality(coordinated_authors), 1>>)
            ELSE Zero
        score == RAdd(RMul(coordination_ratio, <<3, 5>>), RMul(avg_group_score, <<2, 5>>))
    IN  IF total_authors <= 1 THEN Zero
        ELSE IF relevant_groups = <<>> THEN Zero
        ELSE Round(Capped(score), 4)

\* settings.risk.foreign_tlds
DefaultForeignTlds == <<".ru", ".cn", ".ir">>

\* A choice that always takes the configured list.
OrListDefault(x, default) == default

\* x or default, for a list
OrList(x, default) == IF x = Nil \/ x = Some(<<>>) THEN default ELSE x[1]

\* calculate_foreign_domain_score(posts, foreign_tlds)
CalculateForeignDomainScore(ps, foreign_tlds_arg) ==
    LET foreign_tlds == OrList(foreign_tlds_arg, DefaultForeignTlds)
        all_domains == UNION {Range(ps[i].domains) : i \in 1..Len(ps)}
        foreign_domains ==
            {d \in all_domains :
                \E k \in 1..Len(foreign_tlds) : EndsWith(Chars(d), Chars(foreign_tlds[k]))}
    IN  IF ps = <<>> THEN Zero
        ELSE IF all_domains = {} THEN Zero
        ELSE Round(Rat(Cardinality(foreign_domains), Cardinality(all_domains)), 4)

\* The indicators of one author's posts (the body of the loop over
\* author_posts.items(), for an author with at least two posts).
BotIndicators(author_posts_list) ==
    LET m == Len(author_posts_list)
        timestamps == Sorted([i \in 1..m |-> author_posts_list[i].timestamp])
        time_span == timestamps[m] - timestamps[1]
        frequent == time_span > 0 /\ RLt(<<20, 1>>, RDiv(<<m, 1>>, Rat(time_span, 3600)))
        texts == [i \in 1..m |-> author_posts_list[i].text]
        unique_ratio == Rat(Cardinality(Range(texts)), m)
        repetitive == m >= 3 /\ RLt(unique_ratio, <<1, 2>>)
        intervals == [i \in 1..(m - 1) |-> <<timestamps[i + 1] - timestamps[i], 1>>]
        avg_interval == RDiv(RSum(intervals), <<Len(intervals), 1>>)
        variance(avg) ==
            RDiv(RSum([i \in 1..Len(intervals) |->
                          RMul(RAdd(intervals[i], RMul(<<-1, 1>>, avg)),
                               RAdd(intervals[i], RMul(<<-1, 1>>, avg)))]),
                 <<Len(intervals), 1>>)
        regular == /\ m >= 3
                   /\ RLt(Zero, avg_interval)
                   /\ RLt(RDiv(variance(avg_interval), avg_interval), <<1, 10>>)
        with_urls == Cardinality({i \in 1..m : author_posts_list[i].urls # <<>>})
        url_heavy == RLt(<<4, 5>>, Rat(with_urls, m))
        indicators ==
            RSum(<<IF frequent THEN <<3, 10>> ELSE Zero,
                   IF repetitive THEN <<3, 10>> ELSE Zero,
                   IF regular THEN <<1, 5>> ELSE Zero,
                   IF url_heavy THEN <<1, 5>> ELSE Zero>>)
    IN  RMin(indicators, One)

AuthorIdOf(post) == post.author_id

\* A test that skips no author.
ConsideredAlways(author_posts_list) == TRUE

\* if len(author_posts_list) < 2: continue
Considered(author_posts_list) == Len(author_posts_list) >= 2

\* calculate_bot_score(posts)
CalculateBotScore(ps) ==
    LET author_ids == FirstSeen([k \in 1..Len(ps) |-> AuthorIdOf(ps[k])], <<>>)
        author_posts(a) == SelectSeq(ps, LAMBDA p : p.author_id = a)
        considered == SelectSeq(author_ids, LAMBDA a : Considered(author_posts(a)))
        bot_indicators == [k \in 1..Len(considered) |-> BotIndicators(author_posts(considered[k]))]
    IN  IF ps = <<>> THEN Zero
        ELSE IF bot_indicators = <<>> THEN Zero
        ELSE Round(RDiv(RSum(bot_indicators), <<Len(bot_indicators), 1>>), 4)

\* toxic_keywords
ToxicKeywords ==
    {"hate", "kill", "die", "attack", "destroy", "enemy", "threat",
     "dangerous", "evil", "corrupt", "conspiracy", "hoax", "fake",
     "propaganda", "lies", "traitor", "invasion", "war"}

ToxicSpellings == {Chars(kw) : kw \in ToxicKeywords}

\* "".join(c for c in word if c.isalnum()) of the lower-cased word
CleanWord(word) == SelectSeq(Lower(Chars(word)), IsAlnum)

\* clean_word in toxic_keywords, for each word of the model
IsToxic == [word \in DOMAIN Spelling |-> CleanWord(word) \in ToxicSpellings]

\* calculate_toxicity_score(posts); post.text is held as the list of words
\* that split() cuts it into.
CalculateToxicityScore(ps) ==
    LET words == [i \in 1..Len(ps) |-> ps[i].text]
        total_words == SumSeq([i \in 1..Len(ps) |-> Len(words[i])])
        toxic(w) == IsToxic[w]
        toxic_count ==
            SumSeq([i \in 1..Len(ps) |-> Len(SelectSeq(words[i], toxic))])
        ratio == Rat(toxic_count, total_words)
    IN  IF ps = <<>> THEN Zero
        ELSE IF total_words = 0 THEN Zero
        ELSE Round(RMin(RDiv(ratio, <<1, 20>>), One), 4)

\* ------------------------------------------------------------------------
\* risk/engine.py
\* ------------------------------------------------------------------------

\* settings.risk.weights
RiskWeights ==
    [velocity |-> <<1, 4>>, coordination_density |-> <<3, 10>>, bot_score |-> <<1, 5>>,
     foreign_domain_ratio |-> <<3, 20>>, toxicity |-> <<1, 10>>]

\* settings.risk.thresholds
RiskThresholds == [low |-> <<3, 10>>, medium |-> <<3, 5>>, high |-> <<4, 5>>]

\* A reporting threshold of one half.
ReasonThresholdHalf == <<1, 2>>

\* threshold = 0.3 in _generate_reasons
ReasonThreshold == <<3, 10>>

ComponentNames ==
    <<"velocity", "coordination_density", "bot_score", "foreign_domain_ratio", "toxicity">>

\* _generate_reasons(components, weights): one reason per component at or
\* above the reporting threshold, in the fixed order, each carrying the value
\* and the contribution as f"{x:.2f}" prints them.
GenerateReasons(components, weights) ==
    LET reported == SelectSeq(ComponentNames,
                              LAMBDA c : RLe(ReasonThreshold, components[c]))
        reasons == [k \in 1..Len(reported) |->
                      [component |-> reported[k],
                       value |-> Some(Round(components[reported[k]], 2)),
                       contribution |->
                           Some(Round(RMul(weights[reported[k]], components[reported[k]]), 2))]]
    IN  IF reasons = <<>>
        THEN <<[component |-> "No significant risk factors identified",
                value |-> Nil, contribution |-> Nil]>>
        ELSE reasons

\* _calculate_narrative_risk(narrative, posts, groups)
\* _calculate_narrative_risk, from the components on (lines 124-150)
AssessComponents(narrative, components) ==
    LET weights == RiskWeights
        thresholds == RiskThresholds
        risk_score ==
            RSum([k \in 1..Len(ComponentNames) |->
                     RMul(weights[ComponentNames[k]], components[ComponentNames[k]])])
        risk_level == IF RLe(thresholds.high, risk_score) THEN "HIGH"
                      ELSE IF RLe(thresholds.medium, risk_score) THEN "MEDIUM"
                      ELSE "LOW"
    IN  [narrative_id |-> narrative.id,
         risk_score |-> Round(risk_score, 4),
         risk_level |-> risk_level,
         components |-> components,
         reasons |-> GenerateReasons(components, weights)]

\* RiskComponents(...), lines 114-122
RiskComponentsOf(narrative, ps, gs) ==
    [velocity |-> CalculateVelocityScore(ps),
     coordination_density |->
         CalculateCoordinationScore(narrative.id, gs, narrative.author_count),
     bot_score |-> CalculateBotScore(ps),
     foreign_domain_ratio |-> CalculateForeignDomainScore(ps, Nil),
     toxicity |-> CalculateToxicityScore(ps)]

\* _calculate_narrative_risk(narrative, posts, groups)
CalculateNarrativeRisk(narrative, ps, gs) ==
    CHOOSE risk \in {AssessComponents(narrative, components) :
                        components \in {RiskComponentsOf(narrative, ps, gs)}} : TRUE

\* The risks calculate_risk appends, in the order of narratives: one for each
\* narrative that has posts.
NarrativeRisks(ps, ns, gs) ==
    LET clustered == SelectSeq(ps, Clustered)
        posts_in(n) == SelectSeq(clustered, LAMBDA p : p.narrative_id = n.id)
        assessed == SelectSeq(ns, LAMBDA n : posts_in(n) # <<>>)
    IN  [k \in 1..Len(assessed) |-> CalculateNarrativeRisk(assessed[k], posts_in(assessed[k]), gs)]

\* An insertion that keeps the list in the order the risks were appended.
InsertRiskLast(sorted, r) == Append(sorted, r)

\* risks.sort(key=lambda r: r.risk_score, reverse=True): stable
RECURSIVE InsertRiskDesc(_, _)
InsertRiskDesc(sorted, r) ==
    IF sorted = <<>> THEN <<r>>
    ELSE IF RLt(Head(sorted).risk_score, r.risk_score) THEN <<r>> \o sorted
    ELSE <<Head(sorted)>> \o InsertRiskDesc(Tail(sorted), r)

RECURSIVE SortByRiskDesc(_, _)
SortByRiskDesc(rs, sorted) ==
    IF rs = <<>> THEN sorted
    ELSE SortByRiskDesc(Tail(rs), InsertRiskDesc(sorted, Head(rs)))

\* What _store_risk(risk) sends to the graph store.
RiskUpdate(risk) ==
    [query |-> "UPDATE_NARRATIVE_RISK", narrative_id |-> risk.narrative_id,
     risk_score |-> risk.risk_score, risk_level |-> risk.risk_level,
     risk_components |-> risk.components, explanation |-> risk.reasons]

\* ------------------------------------------------------------------------
\* Inputs
\* ------------------------------------------------------------------------

MaxPairs == 2
MaxPosts == 4

PostIds == <<"p1", "p2", "p3", "p4", "p5", "p6">>
HashtagIds == <<"h1", "h2">>
DomainIds == <<"d1">>

\* Two of the orders in which a process may iterate the str sets of the
\* evidence: one hash seed yields the first, another its reverse.
StrUniverse == PostIds \o HashtagIds \o DomainIds
HashSeeds == {StrUniverse, [i \in 1..Len(StrUniverse) |-> StrUniverse[Len(StrUniverse) + 1 - i]]}

\* The i-th post of a list, from the fields that vary.
MkPost(i, shape) ==
    [id |-> PostIds[i],
     timestamp |-> shape.timestamp,
     author_id |-> shape.author_id,
     text |-> shape.text,
     urls |-> shape.urls,
     domains |-> shape.domains,
     hashtags |-> shape.hashtags,
     narrative_id |-> shape.narrative_id]

MkPosts(shapes) == [i \in 1..Len(shapes) |-> MkPost(i, shapes[i])]

\* Posts of two authors in two narratives, all at one time and with one
\* domain and one embedding, with one of two hashtags in the first narrative
\* and one hashtag in the second: a pair of posts scores 1.0 when the
\* hashtags agree and 0.8 when they differ.
DetectShapes ==
    {s \in [timestamp : {0}, author_id : {"a1", "a2"}, text : {<<>>}, urls : {<<>>},
            domains : {<<"d1">>}, hashtags : {<<"h1">>, <<"h2">>},
            narrative_id : Range(NarrativeIds)] :
        s.narrative_id = "n1" \/ s.hashtags = <<"h1">>}

\* Scores a retained pair can carry: the threshold itself and above.
PairScoreLevels == {DefaultThreshold, One}

\* CoordinatedPair records as _detect_pairs_in_narrative emits them: two
\* different authors in either order, a score at or above the threshold, a
\* narrative id.  The fourth author is paired with the third only.
PairSpace ==
    {p \in [author1_id : Range(AuthorIds), author2_id : Range(AuthorIds),
            score : PairScoreLevels, evidence : {EmptyEvidence},
            narrative_id : Range(NarrativeIds)] :
        /\ p.author1_id # p.author2_id
        /\ "a4" \in {p.author1_id, p.author2_id} => "a3" \in {p.author1_id, p.author2_id}}

\* ------------------------------------------------------------------------
\* detect_from_posts called on a post list
\* ------------------------------------------------------------------------

Init ==
    /\ op = "detect_from_posts"
    /\ pc = "ready"
    /\ posts \in {MkPosts(sh) : sh \in SeqsUpTo(DetectShapes, MaxPosts)}
    /\ narratives = <<>>
    /\ embeddings = Some([i \in 1..Len(posts) |-> <<1, 0>>])
    /\ init_args \in {<<Nil, t, Some(2)>> : t \in {Nil, Some(One)}}
    /\ detector = DetectorInit(init_args[1], init_args[2], init_args[3])
    /\ all_pairs = <<>>
    /\ groups = <<>>
    /\ result = Nil
    /\ neo4j = <<>>
    /\ prev_result = Nil
    /\ pending = <<>>
    /\ run_env = Nil
    /\ run_db = Nil
    /\ tlds_given = Nil

\* detect_from_posts(posts, embeddings): pairs per narrative, groups, the
\* graph-store write, the return.
DetectFromPosts ==
    /\ op = "detect_from_posts"
    /\ pc = "ready"
    /\ \E seed \in HashSeeds :
          all_pairs' = AllPairs(posts, embeddings, detector, seed)
    /\ groups' \in BuildGroups(all_pairs', detector.min_group_size)
    /\ \E stored \in StoreCoordination(all_pairs', neo4j) :
          /\ neo4j' = stored.neo4j
          /\ pc' = IF stored.raised THEN "raised" ELSE "returned"
          /\ result' = IF stored.raised THEN Nil ELSE Some(<<all_pairs', groups'>>)
    /\ UNCHANGED <<run_env, run_db, pending, init_args, tlds_given, op, posts, narratives, embeddings, detector, prev_result>>

Next == DetectFromPosts

Spec == Init /\ [][Next]_vars

\* ------------------------------------------------------------------------
\* detect_from_posts, statement by statement
\* ------------------------------------------------------------------------

MaxChainPosts == 4

\* Posts of three authors in two narratives, the first author in the first
\* narrative only and the third in the second only, all at one time, with
\* one domain, one hashtag and one embedding: two authors of one narrative
\* score 1.0.
InitSteps ==
    /\ op = "detect_from_posts"
    /\ pc = "ready"
    /\ posts \in {MkPosts(sh) : sh \in SeqsUpTo(
                      {s \in [timestamp : {0}, author_id : {"a1", "a2", "a3"},
                              text : {<<>>}, urls : {<<>>}, domains : {<<"d1">>},
                              hashtags : {<<"h1">>}, narrative_id : Range(NarrativeIds)] :
                          /\ s.author_id = "a1" => s.narrative_id = "n1"
                          /\ s.author_id = "a3" => s.narrative_id = "n2"},
                      MaxChainPosts)}
    /\ narratives = <<>>
    /\ embeddings = Some([i \in 1..Len(posts) |-> <<1, 0>>])
    /\ init_args \in {<<Nil, Nil, m>> : m \in {Nil, Some(2)}}
    /\ detector = DetectorInit(init_args[1], init_args[2], init_args[3])
    /\ all_pairs = <<>>
    /\ groups = <<>>
    /\ result = Nil
    /\ neo4j = <<>>
    /\ prev_result = Nil
    /\ pending = <<>>
    /\ run_env = Nil
    /\ run_db = Nil
    /\ tlds_given = Nil

\* Lines 73-79: narrative_posts is filled and all_pairs starts empty; the
\* loop of line 82 will walk the keys in insertion order.
GroupByNarrative ==
    /\ op = "detect_from_posts"
    /\ pc = "ready"
    /\ LET clustered == SelectSeq(Enumerate(posts), LAMBDA pd : Clustered(pd[1]))
       IN  pending' = FirstSeen([k \in 1..Len(clustered) |-> NarrativeOf(clustered[k])],
                                <<>>)
    /\ pc' = "pairs"
    /\ UNCHANGED <<run_env, run_db, init_args, tlds_given, op, posts, narratives, embeddings, detector,
                   all_pairs, groups, result, neo4j, prev_result>>

\* Lines 82-89: one turn of the loop over narrative_posts.items().
DetectInNarrative ==
    /\ op = "detect_from_posts"
    /\ pc = "pairs"
    /\ pending # <<>>
    /\ LET post_data == SelectSeq(Enumerate(posts),
                                  LAMBDA pd : /\ Clustered(pd[1])
                                              /\ pd[1].narrative_id = Head(pending))
       IN  IF Len(post_data) < 2 THEN all_pairs' = all_pairs
           ELSE \E seed \in HashSeeds :
                   all_pairs' = all_pairs \o DetectPairsInNarrative(
                                    post_data, embeddings, Head(pending), detector, seed)
    /\ pending' = Tail(pending)
    /\ UNCHANGED <<run_env, run_db, init_args, tlds_given, op, pc, posts, narratives, embeddings, detector,
                   groups, result, neo4j, prev_result>>

\* A call of _build_groups from inside the loop, after its first turn.
BuildGroupsInLoop ==
    /\ op = "detect_from_posts"
    /\ pc = "pairs"
    /\ Len(pending) <= 1
    /\ groups' \in BuildGroups(all_pairs, detector.min_group_size)
    /\ pc' = "groups"
    /\ UNCHANGED <<run_env, run_db, pending, init_args, tlds_given, op, posts, narratives, embeddings,
                   detector, all_pairs, result, neo4j, prev_result>>

\* Line 92, reached when the loop has run out.
BuildAllGroups ==
    /\ op = "detect_from_posts"
    /\ pc = "pairs"
    /\ pending = <<>>
    /\ run_env = Nil
    /\ run_db = Nil
    /\ groups' \in BuildGroups(all_pairs, detector.min_group_size)
    /\ pc' = "groups"
    /\ UNCHANGED <<run_env, run_db, pending, init_args, tlds_given, op, posts, narratives, embeddings,
                   detector, all_pairs, result, neo4j, prev_result>>

\* Lines 95-103: the graph-store write and the return.
StoreAllPairs ==
    /\ op = "detect_from_posts"
    /\ pc = "groups"
    /\ \E stored \in StoreCoordination(all_pairs, neo4j) :
          /\ neo4j' = stored.neo4j
          /\ pc' = IF stored.raised THEN "raised" ELSE "returned"
          /\ result' = IF stored.raised THEN Nil ELSE Some(<<all_pairs, groups>>)
    /\ UNCHANGED <<run_env, run_db, pending, init_args, tlds_given, op, posts, narratives, embeddings,
                   detector, all_pairs, groups, prev_result>>

NextSteps == GroupByNarrative \/ DetectInNarrative \/ BuildAllGroups \/ StoreAllPairs

SpecSteps == InitSteps /\ [][NextSteps]_vars

\* The same input is handed to a second process once the first has returned:
\* the second call starts from what the first left in the graph store.
Rerun ==
    /\ pc = "returned"
    /\ prev_result = Nil
    /\ prev_result' = result
    /\ pc' = "ready"
    /\ UNCHANGED <<run_env, run_db, pending, init_args, tlds_given, op, posts, narratives, embeddings, detector, all_pairs, groups, result, neo4j>>

NextRuns == DetectFromPosts \/ Rerun

SpecRuns == Init /\ [][NextRuns]_vars

\* ------------------------------------------------------------------------
\* CoordinationDetector(...) called with and without explicit arguments
\* ------------------------------------------------------------------------

\* Before __init__ has run the object has no fields.
InitConstruct ==
    /\ op = "init"
    /\ pc = "ready"
    /\ posts = <<>>
    /\ narratives = <<>>
    /\ embeddings = Nil
    /\ init_args \in {<<t, s, m>> : t \in {Nil, Some(0), Some(1), Some(60), Some(90)},
                                    s \in {Nil, Some(Zero), Some(DefaultThreshold), Some(One)},
                                    m \in {Nil, Some(0), Some(2), Some(3)}}
    /\ detector = Nil
    /\ all_pairs = <<>>
    /\ groups = <<>>
    /\ result = Nil
    /\ neo4j = <<>>
    /\ prev_result = Nil
    /\ pending = <<>>
    /\ run_env = Nil
    /\ run_db = Nil
    /\ tlds_given = Nil

\* __init__ sets the fields from its arguments and the settings.
Construct ==
    /\ op = "init"
    /\ pc = "ready"
    /\ detector' = DetectorInit(init_args[1], init_args[2], init_args[3])
    /\ pc' = "returned"
    /\ UNCHANGED <<run_env, run_db, pending, init_args, tlds_given, op, posts, narratives, embeddings, all_pairs,
                   groups, result, neo4j, prev_result>>

SpecConstruct == InitConstruct /\ [][Construct]_vars

\* ------------------------------------------------------------------------
\* run_all called on an input file
\* ------------------------------------------------------------------------

InitRun ==
    /\ op = "run_all"
    /\ pc = "ingest"
    /\ posts = <<>>
    /\ narratives = <<>>
    /\ embeddings = Nil
    /\ init_args = <<Nil, Nil, Nil>>
    /\ detector = DetectorInit(init_args[1], init_args[2], init_args[3])
    /\ all_pairs = <<>>
    /\ groups = <<>>
    /\ result = Nil
    /\ neo4j = <<>>
    /\ prev_result = Nil
    /\ pending = <<>>
    /\ run_env \in [input_file_exists : BOOLEAN, run_id : {None, "run_1"},
                     use_llm : BOOLEAN, verify_connectivity : BOOLEAN]
    /\ run_db = [runs |-> None, run_steps |-> <<>>]
    /\ tlds_given = Nil

\* _run_ingest: typer.Exit(1) when the file is missing, which run_all
\* re-raises; otherwise create_run and the step.
RunIngest ==
    /\ op = "run_all"
    /\ pc = "ingest"
    /\ IF ~run_env.input_file_exists
       THEN pc' = "exited" /\ run_db' = run_db
       ELSE \E o \in {[pc |-> "failed", run_db |-> run_db]}
                     \cup StepOutcomes([run_db EXCEPT !.runs = "running"], "ingest") :
               pc' = o.pc /\ run_db' = o.run_db
    /\ UNCHANGED <<run_env, init_args, tlds_given, op, posts, narratives, embeddings, detector,
                   all_pairs, groups, result, neo4j, prev_result, pending>>

\* _run_enrich, _run_cluster, _run_detect_coordination, _run_score_risk and
\* _run_explain.
RunStep ==
    /\ op = "run_all"
    /\ pc \in {"enrich", "cluster", "detect-coordination", "score-risk", "explain"}
    /\ \E o \in StepOutcomes(run_db, pc) : pc' = o.pc /\ run_db' = o.run_db
    /\ UNCHANGED <<run_env, init_args, tlds_given, op, posts, narratives, embeddings, detector,
                   all_pairs, groups, result, neo4j, prev_result, pending>>

\* _run_build_graph: typer.Exit(1) when verify_connectivity() is false, which
\* run_all re-raises; otherwise the step.
RunBuildGraph ==
    /\ op = "run_all"
    /\ pc = "build-graph"
    /\ IF ~run_env.verify_connectivity
       THEN pc' = "exited" /\ run_db' = run_db
       ELSE \E o \in StepOutcomes(run_db, pc) : pc' = o.pc /\ run_db' = o.run_db
    /\ UNCHANGED <<run_env, init_args, tlds_given, op, posts, narratives, embeddings, detector,
                   all_pairs, groups, result, neo4j, prev_result, pending>>

\* Lines 934-945: complete_run, then the manifest is loaded and saved; an
\* Exception there reaches the handler, which calls fail_run.
CompleteRun ==
    /\ op = "run_all"
    /\ pc = "complete_run"
    /\ \/ pc' = "returned" /\ run_db' = [run_db EXCEPT !.runs = "completed"]
       \/ pc' = "failed" /\ run_db' = [run_db EXCEPT !.runs = "failed"]
    /\ UNCHANGED <<run_env, init_args, tlds_given, op, posts, narratives, embeddings, detector,
                   all_pairs, groups, result, neo4j, prev_result, pending>>

SpecRun == InitRun /\ [][RunIngest \/ RunStep \/ RunBuildGraph \/ CompleteRun]_vars

\* ------------------------------------------------------------------------
\* _build_groups called on a pair list
\* ------------------------------------------------------------------------

\* Pair lists whose graph branches: a1 linked to a2 and a3, with a4 behind
\* a3; and a triangle.
BranchingPairs ==
    LET link(a, b) == [author1_id |-> a, author2_id |-> b, score |-> One,
                       evidence |-> EmptyEvidence, narrative_id |-> "n1"]
    IN  {<<link("a1", "a2"), link("a1", "a3"), link("a3", "a4")>>,
         <<link("a2", "a1"), link("a3", "a2"), link("a1", "a3")>>}

InitGroups ==
    /\ op = "build_groups"
    /\ pc = "ready"
    /\ posts = <<>>
    /\ narratives = <<>>
    /\ embeddings = Nil
    /\ init_args \in {<<Nil, Nil, m>> : m \in {Nil, Some(2)}}
    /\ detector = DetectorInit(init_args[1], init_args[2], init_args[3])
    /\ all_pairs \in SeqsUpTo(PairSpace, MaxPairs) \cup BranchingPairs
    /\ groups = <<>>
    /\ result = Nil
    /\ neo4j = <<>>
    /\ prev_result = Nil
    /\ pending = <<>>
    /\ run_env = Nil
    /\ run_db = Nil
    /\ tlds_given = Nil

\* _build_groups(all_pairs) runs and returns its list.
CallBuildGroups ==
    /\ op = "build_groups"
    /\ pc = "ready"
    /\ groups' \in BuildGroups(all_pairs, detector.min_group_size)
    /\ result' = Some(groups')
    /\ pc' = "returned"
    /\ UNCHANGED <<run_env, run_db, pending, init_args, tlds_given, op, posts, narratives, embeddings, detector, all_pairs, neo4j, prev_result>>

NextGroups == CallBuildGroups

SpecGroups == InitGroups /\ [][NextGroups]_vars

\* ------------------------------------------------------------------------
\* RiskEngine.calculate_risk called on posts, narratives and groups; and
\* detect_from_posts on posts whose embeddings differ
\* ------------------------------------------------------------------------

MaxRiskPosts == 5
MaxScorePosts == 3

\* What the posts of the first narrative are like, the timestamp apart: a1
\* posts a toxic word with a link to a foreign domain, a2 posts twenty-five
\* words, one of them toxic, without a link.
LongText == [i \in 1..25 |-> IF i = 2 THEN "war." ELSE "hello"]

RiskKinds ==
    <<[author_id |-> "a1", text |-> <<"Hate!">>, urls |-> <<"u1">>,
       domains |-> <<"x.ru">>, hashtags |-> <<>>, narrative_id |-> "n1"],
      [author_id |-> "a2", text |-> LongText, urls |-> <<>>,
       domains |-> <<"y.com">>, hashtags |-> <<>>, narrative_id |-> "n1"]>>

\* Seconds: together, a minute apart, two hours later.
RiskTimestamps == <<0, 60, 120, 7200>>

\* The post of the second narrative: a2, no text, a domain that is not foreign.
OtherNarrativeShape ==
    [timestamp |-> 0, author_id |-> "a2", text |-> <<>>, urls |-> <<"u1">>,
     domains |-> <<"ru">>, hashtags |-> <<>>, narrative_id |-> "n2"]

RiskShapes ==
    [i \in 1..(Len(RiskKinds) * Len(RiskTimestamps)) |->
        LET kind == RiskKinds[((i - 1) \div Len(RiskTimestamps)) + 1]
        IN  [timestamp |-> RiskTimestamps[((i - 1) % Len(RiskTimestamps)) + 1],
             author_id |-> kind.author_id, text |-> kind.text, urls |-> kind.urls,
             domains |-> kind.domains, hashtags |-> kind.hashtags,
             narrative_id |-> kind.narrative_id]]
    \o <<OtherNarrativeShape>>

\* The lists of n shapes that take them in the order of RiskShapes: one list
\* for every choice of how many posts of each shape there are.
RECURSIVE ShapeLists(_, _)
ShapeLists(n, from) ==
    IF n = 0 THEN {<<>>}
    ELSE UNION {{<<RiskShapes[i]>> \o rest : rest \in ShapeLists(n - 1, i)} :
                   i \in from..Len(RiskShapes)}

\* NarrativeMetadata, by the two fields the risk engine reads.
Narrative(id, author_count) == [id |-> id, author_count |-> author_count]

\* Two groups as _build_groups returns them: disjoint, the second spanning
\* both narratives.
GroupA ==
    [id |-> GroupId(0), author_ids |-> <<"a1", "a2">>, score |-> DefaultThreshold,
     evidence_summary |-> <<2, DefaultThreshold>>, narrative_ids |-> <<"n1">>, size |-> 2]
GroupB ==
    [id |-> GroupId(1), author_ids |-> <<"a3", "a4">>, score |-> One,
     evidence_summary |-> <<2, One>>, narrative_ids |-> <<"n1", "n2">>, size |-> 2]

\* The narratives and groups handed to calculate_risk.  A narrative's
\* author_count counts its own authors, a group's authors may come from
\* another narrative too.
RiskCases ==
    {[narratives |-> <<Narrative("n1", 1)>>, groups |-> <<GroupA>>],
     [narratives |-> <<Narrative("n1", 2)>>, groups |-> <<>>],
     [narratives |-> <<Narrative("n1", 8), Narrative("n2", 2)>>, groups |-> <<GroupA>>],
     [narratives |-> <<Narrative("n2", 2), Narrative("noise", 2), Narrative("n1", 3)>>,
      groups |-> <<GroupB, GroupA>>]}

\* Three posts of one author in the first narrative, a minute apart, with
\* the same text and a link each; every post names one of three domains, one
\* of them foreign.
RegularPosts ==
    {MkPosts([k \in 1..3 |->
                [timestamp |-> 60 * (k - 1), author_id |-> "a1", text |-> <<"hello">>,
                 urls |-> <<"u1">>, domains |-> <<d[k]>>, hashtags |-> <<>>,
                 narrative_id |-> "n1"]]) :
        d \in [1..3 -> {"x.ru", "y.com", "d1"}]}

InitRisk ==
    /\ op = "calculate_risk"
    /\ pc = "ready"
    /\ posts \in {MkPosts(sh) : sh \in UNION {ShapeLists(n, 1) : n \in 0..MaxRiskPosts}}
                \cup RegularPosts
    /\ \E c \in RiskCases : narratives = c.narratives /\ groups = c.groups
    /\ embeddings = Nil
    /\ init_args = <<Nil, Nil, Nil>>
    /\ detector = DetectorInit(init_args[1], init_args[2], init_args[3])
    /\ all_pairs = <<>>
    /\ result = Nil
    /\ neo4j = <<>>
    /\ prev_result = Nil
    /\ pending = <<>>
    /\ run_env = Nil
    /\ run_db = Nil
    /\ tlds_given = Nil

\* calculate_risk(posts, narratives, groups): each narrative that has posts is
\* assessed and written to the graph store in turn, a write may raise; the
\* list is sorted and returned.
CalculateRisk ==
    /\ op = "calculate_risk"
    /\ pc = "ready"
    /\ \E risks \in {NarrativeRisks(posts, narratives, groups)} :
          \E written \in 0..Len(risks) :
             /\ neo4j' = neo4j \o [k \in 1..written |-> RiskUpdate(risks[k])]
             /\ pc' = IF written < Len(risks) THEN "raised" ELSE "returned"
             /\ result' = IF written < Len(risks) THEN Nil
                          ELSE Some(SortByRiskDesc(risks, <<>>))
    /\ UNCHANGED <<run_env, run_db, pending, init_args, tlds_given, op, posts, narratives, embeddings, detector, all_pairs, groups,
                   prev_result>>

\* Unit vectors of the embedding space: equal, orthogonal and opposite ones.
EmbeddingSpace == {<<1, 0>>, <<0, 1>>, <<-1, 0>>}

\* Posts of two authors in one narrative, all at one time and with one
\* domain, with one of two hashtags.
ScoreShapes ==
    [timestamp : {0}, author_id : {"a1", "a2"}, text : {<<>>}, urls : {<<>>},
     domains : {<<"d1">>}, hashtags : {<<"h1">>, <<"h2">>}, narrative_id : {"n1"}]

\* A threshold under the default one: CoordinationDetector(similarity_threshold=0.3)
LowThreshold == <<3, 10>>

InitScores ==
    /\ op = "detect_from_posts"
    /\ pc = "ready"
    /\ posts \in {MkPosts(sh) : sh \in SeqsUpTo(ScoreShapes, MaxScorePosts)}
    /\ narratives = <<>>
    /\ embeddings \in {Nil} \cup {Some(e) : e \in [1..Len(posts) -> EmbeddingSpace]}
    /\ init_args \in {<<Nil, t, Some(2)>> : t \in {Nil, Some(LowThreshold)}}
    /\ detector = DetectorInit(init_args[1], init_args[2], init_args[3])
    /\ all_pairs = <<>>
    /\ groups = <<>>
    /\ result = Nil
    /\ neo4j = <<>>
    /\ prev_result = Nil
    /\ pending = <<>>
    /\ run_env = Nil
    /\ run_db = Nil
    /\ tlds_given = Nil

NextScores == DetectFromPosts \/ CalculateRisk

SpecScores == (InitRisk \/ InitScores) /\ [][NextScores]_vars

\* ------------------------------------------------------------------------
\* _calculate_pair_score called on the posts of two authors
\* ------------------------------------------------------------------------

MaxAuthorPosts == 3

\* Posts of two authors with one domain and one of two hashtags, at the
\* start of the default time window (0 s), at its end (3600 s), or one second
\* past it.
WindowShapes ==
    [timestamp : {0, 3600, 3601}, author_id : {"a1", "a2"}, text : {<<>>},
     urls : {<<>>}, domains : {<<"d1">>}, hashtags : {<<"h1">>, <<"h2">>},
     narrative_id : {"n1"}]

\* author_posts[author_id]: the (post, idx) of one author, in list order.
AuthorPosts(ps, a) == SelectSeq(Enumerate(ps), LAMBDA pd : AuthorOf(pd) = a)

InitPair ==
    /\ op = "calculate_pair_score"
    /\ pc = "ready"
    /\ posts \in {MkPosts(sh) : sh \in SeqsUpTo(WindowShapes, MaxAuthorPosts)}
    /\ narratives = <<>>
    /\ embeddings \in {Nil, Some([i \in 1..Len(posts) |-> <<1, 0>>])}
    /\ init_args = <<Nil, Nil, Nil>>
    /\ detector = DetectorInit(init_args[1], init_args[2], init_args[3])
    /\ all_pairs = <<>>
    /\ groups = <<>>
    /\ result = Nil
    /\ neo4j = <<>>
    /\ prev_result = Nil
    /\ pending = <<>>
    /\ run_env = Nil
    /\ run_db = Nil
    /\ tlds_given = Nil

\* _calculate_pair_score(author_posts["a1"], author_posts["a2"], embeddings)
\* runs and returns its (score, evidence).
CallCalculatePairScore ==
    /\ op = "calculate_pair_score"
    /\ pc = "ready"
    /\ \E seed \in HashSeeds :
          result' = Some(CalculatePairScore(AuthorPosts(posts, "a1"),
                                            AuthorPosts(posts, "a2"),
                                            embeddings, detector, seed))
    /\ pc' = "returned"
    /\ UNCHANGED <<run_env, run_db, pending, init_args, tlds_given, op, posts, narratives, embeddings, detector, all_pairs, groups,
                   neo4j, prev_result>>

NextPair == CallCalculatePairScore

SpecPair == InitPair /\ [][NextPair]_vars

\* ------------------------------------------------------------------------
\* detect_from_posts and calculate_risk called on posts some of which are
\* not clustered
\* ------------------------------------------------------------------------

MaxNoisePosts == 4

\* Posts of two authors, all at one time and with one domain and one
\* hashtag, in the first narrative, marked "noise", or without narrative id.
NoiseShapes ==
    [timestamp : {0}, author_id : {"a1", "a2"}, text : {<<>>}, urls : {<<>>},
     domains : {<<"d1">>}, hashtags : {<<"h1">>}, narrative_id : {"n1", "noise", None}]

InitNoise ==
    /\ op \in {"detect_from_posts", "calculate_risk"}
    /\ pc = "ready"
    /\ posts \in {MkPosts(sh) : sh \in SeqsUpTo(NoiseShapes, MaxNoisePosts)}
    /\ narratives = IF op = "calculate_risk"
                    THEN <<Narrative("noise", 2), Narrative("n1", 2)>>
                    ELSE <<>>
    \* no embeddings, or rows that alternate between two orthogonal vectors
    /\ embeddings \in {Nil, Some([i \in 1..Len(posts) |->
                                     IF i % 2 = 1 THEN <<1, 0>> ELSE <<0, 1>>])}
    /\ init_args = <<Nil, Some(LowThreshold), Some(2)>>
    /\ detector = DetectorInit(init_args[1], init_args[2], init_args[3])
    /\ all_pairs = <<>>
    /\ groups = IF op = "calculate_risk" THEN <<GroupA>> ELSE <<>>
    /\ result = Nil
    /\ neo4j = <<>>
    /\ prev_result = Nil
    /\ pending = <<>>
    /\ run_env = Nil
    /\ run_db = Nil
    /\ tlds_given = Nil

SpecNoise == InitNoise /\ [][NextScores]_vars

\* ------------------------------------------------------------------------
\* The risk component functions, and detect_from_posts, called on their own
\* ------------------------------------------------------------------------

MaxComponentPosts == 4
MaxComponentGroups == 2

ComponentOps ==
    {"calculate_velocity_score", "calculate_coordination_score",
     "calculate_foreign_domain_score", "calculate_bot_score", "calculate_toxicity_score"}

\* A post of the first author in the first narrative with nothing in it.
BlankShape ==
    [timestamp |-> 0, author_id |-> "a1", text |-> <<>>, urls |-> <<>>,
     domains |-> <<>>, hashtags |-> <<>>, narrative_id |-> "n1"]

\* Posts for the bot score: the first author posts the same text with a link
\* every minute and another text two hours later, the second author posts
\* two texts a minute apart without a link and one with a link two hours
\* later.
BotShapes ==
    {[BlankShape EXCEPT !.timestamp = t, !.text = <<"hello">>, !.urls = <<"u1">>] :
        t \in {0, 60, 120}}
    \cup {[BlankShape EXCEPT !.timestamp = 7200, !.text = <<"war.">>],
          [BlankShape EXCEPT !.author_id = "a2", !.text = <<"hello">>],
          [BlankShape EXCEPT !.author_id = "a2", !.timestamp = 60, !.text = <<"war.">>],
          [BlankShape EXCEPT !.author_id = "a2", !.timestamp = 7200,
                             !.text = <<"hello">>, !.urls = <<"u1">>]}

\* Posts of three authors for the bot score, two posts at one time each,
\* the posts of an author either both with a link or both without.
ThreeAuthorPosts ==
    {MkPosts([k \in 1..6 |->
                [BlankShape EXCEPT !.author_id = AuthorIds[(k + 1) \div 2],
                                   !.text = <<"hello">>,
                                   !.urls = u[(k + 1) \div 2]]]) :
        u \in [1..3 -> {<<>>, <<"u1">>}]}

\* What the posts given to each function are like: each function gets posts
\* that differ in the fields it reads.  Seconds for the velocity: together,
\* ten posts an hour for two posts, a second more, two hours.
ComponentShapes ==
    [o \in ComponentOps \cup {"detect_from_posts"} |->
        CASE o = "calculate_velocity_score" ->
                {[BlankShape EXCEPT !.timestamp = t] : t \in {0, 720, 721, 7200}}
          [] o = "calculate_coordination_score" -> {}
          [] o = "calculate_foreign_domain_score" ->
                {[BlankShape EXCEPT !.domains = d] :
                    d \in {<<>>, <<"a.com">>, <<"b.ru">>, <<"c.cn">>}}
          [] o = "calculate_bot_score" -> BotShapes
          [] o = "calculate_toxicity_score" ->
                {[BlankShape EXCEPT !.text = w] :
                    w \in {<<>>, <<"hello">>, <<"Hate!", "hello">>}}
          [] o = "detect_from_posts" -> ScoreShapes]

\* CoordinatedGroup records: no author or two, a score of 0.0, 0.0001 or
\* 1.0, one narrative id, the size that of the membership.
GroupSpace ==
    {[id |-> GroupId(0), author_ids |-> a, score |-> sc,
      evidence_summary |-> <<Len(a), sc>>, narrative_ids |-> <<n>>, size |-> Len(a)] :
        a \in {<<>>, <<"a1", "a2">>, <<"a2", "a3">>},
        sc \in {Zero, <<1, 10000>>, One},
        n \in Range(NarrativeIds)}

InitComponents ==
    /\ op \in ComponentOps \cup {"detect_from_posts"}
    /\ pc = "ready"
    /\ posts \in {MkPosts(sh) : sh \in SeqsUpTo(ComponentShapes[op], MaxComponentPosts)}
                \cup (IF op = "calculate_bot_score" THEN ThreeAuthorPosts ELSE {})
    /\ narratives \in IF op = "calculate_coordination_score"
                       THEN {<<Narrative("n1", total_authors)>> :
                                total_authors \in {0, 1, 2, 10000, 200000}}
                       ELSE IF op = "calculate_velocity_score"
                       THEN {<<Narrative("n1", 1)>>}
                       ELSE {<<>>}
    /\ embeddings = Nil
    /\ init_args = <<Nil, Nil, Nil>>
    /\ detector = DetectorInit(init_args[1], init_args[2], init_args[3])
    /\ all_pairs = <<>>
    /\ groups \in IF op = "calculate_coordination_score"
                   THEN SeqsUpTo(GroupSpace, MaxComponentGroups)
                   ELSE {<<>>}
    /\ result = Nil
    /\ neo4j = <<>>
    /\ prev_result = Nil
    /\ pending = <<>>
    /\ run_env = Nil
    /\ run_db = Nil
    /\ tlds_given \in IF op = "calculate_foreign_domain_score"
                       THEN {Nil, Some(<<>>), Some(<<".ru">>)}
                       ELSE {Nil}

\* calculate_velocity_score(posts, narrative)
CallVelocityScore ==
    /\ op = "calculate_velocity_score"
    /\ pc = "ready"
    /\ result' = Some(CalculateVelocityScore(posts))
    /\ pc' = "returned"
    /\ UNCHANGED <<run_env, run_db, pending, init_args, tlds_given, op, posts, narratives, embeddings, detector, all_pairs,
                   groups, neo4j, prev_result>>

\* calculate_coordination_score(narrative.id, groups, narrative.author_count)
CallCoordinationScore ==
    /\ op = "calculate_coordination_score"
    /\ pc = "ready"
    /\ result' = Some(CalculateCoordinationScore(narratives[1].id, groups,
                                                 narratives[1].author_count))
    /\ pc' = "returned"
    /\ UNCHANGED <<run_env, run_db, pending, init_args, tlds_given, op, posts, narratives, embeddings, detector, all_pairs,
                   groups, neo4j, prev_result>>

\* calculate_foreign_domain_score(posts, foreign_tlds)
CallForeignDomainScore ==
    /\ op = "calculate_foreign_domain_score"
    /\ pc = "ready"
    /\ result' = Some(CalculateForeignDomainScore(posts, tlds_given))
    /\ pc' = "returned"
    /\ UNCHANGED <<run_env, run_db, pending, init_args, tlds_given, op, posts, narratives, embeddings, detector, all_pairs,
                   groups, neo4j, prev_result>>

\* calculate_bot_score(posts)
CallBotScore ==
    /\ op = "calculate_bot_score"
    /\ pc = "ready"
    /\ result' = Some(CalculateBotScore(posts))
    /\ pc' = "returned"
    /\ UNCHANGED <<run_env, run_db, pending, init_args, tlds_given, op, posts, narratives, embeddings, detector, all_pairs,
                   groups, neo4j, prev_result>>

\* calculate_toxicity_score(posts)
CallToxicityScore ==
    /\ op = "calculate_toxicity_score"
    /\ pc = "ready"
    /\ result' = Some(CalculateToxicityScore(posts))
    /\ pc' = "returned"
    /\ UNCHANGED <<run_env, run_db, pending, init_args, tlds_given, op, posts, narratives, embeddings, detector, all_pairs,
                   groups, neo4j, prev_result>>

NextComponents ==
    \/ CallVelocityScore
    \/ CallCoordinationScore
    \/ CallForeignDomainScore
    \/ CallBotScore
    \/ CallToxicityScore
    \/ DetectFromPosts

SpecComponents == InitComponents /\ [][NextComponents]_vars

\* ------------------------------------------------------------------------
\* The pair graph, as the claims speak of it
\* ------------------------------------------------------------------------

Endpoints(pairs) == UNION {{p.author1_id, p.author2_id} : p \in Range(pairs)}

Paired(a, b, pairs) ==
    \E p \in Range(pairs) : {p.author1_id, p.author2_id} = {a, b} /\ a # b

\* The authors reachable from those in S along pairs whose two ends lie in
\* within.
RECURSIVE ReachWithin(_, _, _)
ReachWithin(S, within, pairs) ==
    LET T == S \cup {b \in within : \E a \in S : Paired(a, b, pairs)}
    IN  IF T = S THEN S ELSE ReachWithin(T, within, pairs)

\* The connected components of the pair graph.
ComponentsOf(pairs) ==
    {ReachWithin({a}, Endpoints(pairs), pairs) : a \in Endpoints(pairs)}

Members(g) == Range(g.author_ids)

\* The input pairs with both authors in the group.
MemberPairs(g, pairs) ==
    {i \in 1..Len(pairs) : {pairs[i].author1_id, pairs[i].author2_id} \subseteq Members(g)}

Returned == pc = "returned"

\* C4: a connected component of the pair graph is among the returned groups
\* if and only if it has at least min_group_size authors.
C4_GroupMinimumSize ==
    Returned =>
        \A c \in ComponentsOf(all_pairs) :
            (\E i \in 1..Len(groups) : Members(groups[i]) = c)
                <=> Cardinality(c) >= detector.min_group_size

C4_Witness ==
    /\ Returned
    /\ \E i \in 1..Len(groups) : groups[i].size = detector.min_group_size
    /\ detector.min_group_size = DefaultMinGroupSize

\* C5: every returned group is a maximal connected set: any two members are
\* joined by a path of pairs inside the group, and no author outside the
\* group is paired with a member.
C5_GroupsAreMaximalComponents ==
    Returned =>
        \A i \in 1..Len(groups) :
            /\ \A a \in Members(groups[i]) :
                  ReachWithin({a}, Members(groups[i]), all_pairs) = Members(groups[i])
            /\ \A p \in Range(all_pairs) :
                  p.author1_id \in Members(groups[i]) <=> p.author2_id \in Members(groups[i])

C5_Witness ==
    /\ Returned
    /\ \E i \in 1..Len(groups) :
          /\ groups[i].size = 3
          /\ \E a, b \in Members(groups[i]) : a # b /\ ~Paired(a, b, all_pairs)

\* C7: narrative_ids of a returned group lists exactly the narrative ids of
\* the input pairs with both authors in the group.
C7_NarrativeIdsOfAllMemberPairs ==
    Returned =>
        \A i \in 1..Len(groups) :
            Range(groups[i].narrative_ids) =
                {all_pairs[k].narrative_id : k \in MemberPairs(groups[i], all_pairs)}

\* The sum of f over the finite set S of rationals' indices.
RECURSIVE RSumOver(_, _)
RSumOver(S, f) ==
    IF S = {} THEN Zero
    ELSE LET x == CHOOSE y \in S : TRUE IN RAdd(f[x], RSumOver(S \ {x}, f))

\* C8: the score of a returned group is the mean of the pair-score map's
\* scores over the author pairs inside the group, and lies between the
\* smallest and the largest score of the group's direct pairs.
C8_GroupScoreIsMeanOfDirectPairs ==
    Returned =>
        \A i \in 1..Len(groups) :
            LET g == groups[i]
                map == PairScores(all_pairs)
                keys == {k \in DOMAIN map : {k[1], k[2]} \subseteq Members(g)}
                direct == MemberPairs(g, all_pairs)
            IN  /\ keys # {}
                /\ g.score = RDiv(RSumOver(keys, [k \in keys |-> map[k].score]),
                                  <<Cardinality(keys), 1>>)
                /\ \E k \in direct : RLe(all_pairs[k].score, g.score)
                /\ \E k \in direct : RLe(g.score, all_pairs[k].score)

C8_Witness ==
    /\ Returned
    /\ \E i \in 1..Len(groups) :
          /\ groups[i].size = 3
          /\ \E a, b \in Members(groups[i]) : a # b /\ ~Paired(a, b, all_pairs)
          /\ \E k \in MemberPairs(groups[i], all_pairs) :
                RLt(groups[i].score, all_pairs[k].score)

\* The number a group id ends with.
RECURSIVE DigitsValue(_)
DigitsValue(ds) ==
    IF ds = <<>> THEN 0 ELSE 10 * DigitsValue(SubSeq(ds, 1, Len(ds) - 1)) + ds[Len(ds)]

IdNumber(g) == DigitsValue(Tail(g.id))

\* C9: the returned list is sorted by score, largest first, and groups of
\* equal score stand in discovery order (the smaller id first).
C9_SortedByScoreStable ==
    Returned =>
        \A i, j \in 1..Len(groups) :
            i < j =>
                /\ RLe(groups[j].score, groups[i].score)
                /\ groups[j].score = groups[i].score
                      => IdNumber(groups[i]) < IdNumber(groups[j])

C9_Witness ==
    /\ Returned
    /\ Len(groups) = 2
    /\ groups[1].score = groups[2].score

\* ------------------------------------------------------------------------
\* detect_from_posts, as the claims speak of it
\* ------------------------------------------------------------------------

Ended == pc \in {"returned", "raised"}

\* C1: when the call has ended, it has returned the pairs and groups it
\* computed - also when the graph-store write failed.
C1_PersistenceFailureIsolated ==
    Ended => pc = "returned" /\ result = Some(<<all_pairs, groups>>)

\* C2: two runs on the same posts, embeddings and configuration return the
\* same pairs and groups, element for element.
C2_Deterministic ==
    (pc = "returned" /\ prev_result # Nil) => result = prev_result

\* The clustered posts of author a in narrative n, each with its index.
PostsOf(a, n) ==
    SelectSeq(Enumerate(posts),
              LAMBDA pd : Clustered(pd[1]) /\ pd[1].author_id = a /\ pd[1].narrative_id = n)

AuthorsIn(n) == {posts[i].author_id : i \in {k \in 1..Len(posts) : posts[k].narrative_id = n}}

\* The pair score of authors a and b in narrative n.
ScoreOf(a, b, n) == PairScore(PostsOf(a, n), PostsOf(b, n), embeddings, detector)

\* The emitted records for the unordered author pair {a, b} in narrative n.
RecordsOf(a, b, n) ==
    {i \in 1..Len(all_pairs) :
        /\ all_pairs[i].narrative_id = n
        /\ {all_pairs[i].author1_id, all_pairs[i].author2_id} = {a, b}}

\* C3: within a narrative, a pair is emitted for two different authors if
\* and only if their pair score is at least similarity_threshold, and it
\* carries that score.
C3_ThresholdBoundary ==
    Ended =>
        \A n \in Range(NarrativeIds) : \A a, b \in AuthorsIn(n) :
            StrRank(a) < StrRank(b) =>
                LET score == ScoreOf(a, b, n)
                IN  /\ RecordsOf(a, b, n) # {}
                          <=> RLe(detector.similarity_threshold, score)
                    /\ \A i \in RecordsOf(a, b, n) : all_pairs[i].score = score

\* One pair emitted with its score exactly at the threshold, another author
\* pair left out with a score below it.
C3_Witness ==
    /\ Ended
    /\ \E i \in 1..Len(all_pairs) : all_pairs[i].score = detector.similarity_threshold
    /\ \E n \in Range(NarrativeIds) : \E a, b \in AuthorsIn(n) :
          /\ a # b
          /\ RLt(ScoreOf(a, b, n), detector.similarity_threshold)
          /\ RecordsOf(a, b, n) = {}

\* C10: no record pairs an author with itself, an unordered author pair has
\* at most one record per narrative, and a pair that reaches the threshold
\* in two narratives has a record in each: one in every narrative where it
\* reaches the threshold.
C10_OnePairPerNarrative ==
    Ended =>
        /\ \A i \in 1..Len(all_pairs) : all_pairs[i].author1_id # all_pairs[i].author2_id
        /\ \A n \in Range(NarrativeIds) : \A a, b \in Range(AuthorIds) :
              Cardinality(RecordsOf(a, b, n)) <= 1
        /\ \A n \in Range(NarrativeIds) : \A a, b \in AuthorsIn(n) :
              (StrRank(a) < StrRank(b)
                  /\ RLe(detector.similarity_threshold, ScoreOf(a, b, n)))
                  => Cardinality(RecordsOf(a, b, n)) = 1

C10_Witness ==
    /\ Ended
    /\ Len(all_pairs) = 2
    /\ {all_pairs[1].author1_id, all_pairs[1].author2_id}
          = {all_pairs[2].author1_id, all_pairs[2].author2_id}
    /\ all_pairs[1].narrative_id # all_pairs[2].narrative_id

\* ------------------------------------------------------------------------
\* Score bounds
\* ------------------------------------------------------------------------

InUnitInterval(x) == RLe(Zero, x) /\ RLe(x, One)

CrossNear ==
    {ij \in (1..Len(posts)) \X (1..Len(posts)) :
        /\ posts[ij[1]].author_id = "a1"
        /\ posts[ij[2]].author_id = "a2"
        /\ Abs(posts[ij[1]].timestamp - posts[ij[2]].timestamp) <= detector.time_window}

\* The combined score of the posts i and j.
Combined(ij) ==
    PostPairScore(<<posts[ij[1]], ij[1]>>, <<posts[ij[2]], ij[2]>>, embeddings, detector)

\* C11: _calculate_pair_score returns 0.0 and an empty evidence when no post
\* of the one author lies within the time window of a post of the other;
\* otherwise it returns the largest of the combined scores of the post pairs
\* within the window.
C11_PairScoreIsMaxWithinWindow ==
    (op = "calculate_pair_score" /\ pc = "returned") =>
       IF CrossNear = {}
       THEN result[1].score = Zero /\ result[1].evidence = EmptyEvidence
       ELSE /\ \E ij \in CrossNear : result[1].score = Combined(ij)
            /\ \A ij \in CrossNear : RLe(Combined(ij), result[1].score)

\* A returned score taken over two post pairs whose combined scores differ,
\* the posts of one of them exactly one time window apart.
C11_Witness ==
    /\ op = "calculate_pair_score"
    /\ pc = "returned"
    /\ \E ij \in CrossNear : \E kl \in CrossNear :
          /\ RLt(Combined(ij), Combined(kl))
          /\ Abs(posts[kl[1]].timestamp - posts[kl[2]].timestamp) = detector.time_window

\* ------------------------------------------------------------------------
\* calculate_risk, as the claims speak of it
\* ------------------------------------------------------------------------

\* The level the thresholds give a score.
LevelOf(score) ==
    IF RLe(RiskThresholds.high, score) THEN "HIGH"
    ELSE IF RLe(RiskThresholds.medium, score) THEN "MEDIUM"
    ELSE "LOW"

\* C12: the risk_level of every returned risk agrees with its reported
\* risk_score: HIGH if and only if risk_score >= thresholds.high, MEDIUM if
\* and only if thresholds.medium <= risk_score < thresholds.high, LOW
\* otherwise.
C12_LevelAgreesWithReportedScore ==
    (op = "calculate_risk" /\ pc = "returned") =>
       \A k \in 1..Len(result[1]) :
          result[1][k].risk_level = LevelOf(result[1][k].risk_score)

\* The risks calculate_risk has returned.
ReturnedRisks ==
    IF op = "calculate_risk" /\ pc = "returned" THEN Range(result[1]) ELSE {}

\* The components of a risk that reach 0.3.
Significant(r) == {c \in Range(ComponentNames) : RLe(Rat(3, 10), r.components[c])}

NoSignificant == "No significant risk factors identified"

\* C13: the reasons of every returned risk are not empty; when a component
\* reaches 0.3 there is exactly one reason for each such component and none
\* else, in the order velocity, coordination_density, bot_score,
\* foreign_domain_ratio, toxicity; the reasons are the single "No significant
\* risk factors identified" if and only if all five components are below
\* 0.3, and when all five are 0.0 the risk_score is 0.0 and the level LOW.
C13_ReasonsMatchComponents ==
    \A r \in ReturnedRisks :
       LET named == [k \in 1..Len(r.reasons) |-> r.reasons[k].component]
       IN  /\ r.reasons # <<>>
           /\ Significant(r) # {} =>
                 /\ Range(named) = Significant(r)
                 /\ \A k \in 1..(Len(named) - 1) :
                       IndexOf(ComponentNames, named[k]) < IndexOf(ComponentNames, named[k + 1])
           /\ named = <<NoSignificant>> <=> Significant(r) = {}
           /\ (\A c \in Range(ComponentNames) : r.components[c] = Zero) =>
                 r.risk_score = Zero /\ r.risk_level = "LOW"

\* Two returned risks: one with all five components 0.0, the other with
\* several reasons, one of them for a component between 0.3 and 0.5, and a
\* component that is not reported.
C13_Witness ==
    /\ \E r \in ReturnedRisks : \A c \in Range(ComponentNames) : r.components[c] = Zero
    /\ \E r \in ReturnedRisks :
          /\ Len(r.reasons) >= 2
          /\ Significant(r) # Range(ComponentNames)
          /\ \E c \in Significant(r) : RLt(r.components[c], Rat(1, 2))

\* The posts assigned to the narrative id: those that carry it, the sentinel
\* "noise" marking a post that is assigned to none.
Assigned(id) == {i \in 1..Len(posts) : posts[i].narrative_id = id /\ id # "noise"}

\* C14: calculate_risk returns one risk record for an entry of narratives if
\* and only if at least one post is assigned to the entry's id, and the
\* returned list is in non-increasing order of risk_score.
C14_RecordIffPostsAndSorted ==
    (op = "calculate_risk" /\ pc = "returned") =>
       /\ \A n \in Range(narratives) :
             Cardinality({k \in 1..Len(result[1]) : result[1][k].narrative_id = n.id})
                = IF Assigned(n.id) # {}
                  THEN Cardinality({k \in 1..Len(narratives) : narratives[k].id = n.id})
                  ELSE 0
       /\ \A k \in 1..Len(result[1]) :
             \E n \in Range(narratives) : n.id = result[1][k].narrative_id
       /\ \A k \in 1..(Len(result[1]) - 1) :
             RLe(result[1][k + 1].risk_score, result[1][k].risk_score)

\* A returned list of two records in the opposite order of their narratives
\* entries and of different scores, a third entry having no post and no
\* record.
C14_Witness ==
    /\ op = "calculate_risk"
    /\ pc = "returned"
    /\ Len(narratives) = 3
    /\ Len(result[1]) = 2
    /\ result[1][1].narrative_id = narratives[3].id
    /\ result[1][2].narrative_id = narratives[1].id
    /\ RLt(result[1][2].risk_score, result[1][1].risk_score)

\* ------------------------------------------------------------------------
\* Posts outside every narrative, as the claims speak of them
\* ------------------------------------------------------------------------

\* The positions of the posts marked "noise" or without narrative id.
Unclustered == {i \in 1..Len(posts) : posts[i].narrative_id \in {"noise", None, ""}}

\* The positions that are left when the unclustered posts are taken away.
Kept == SelectSeq([i \in 1..Len(posts) |-> i], LAMBDA i : i \notin Unclustered)

\* Noise and unset posts take no part: no pair names "noise" or no narrative,
\* no pair's evidence holds such a post, the pairs are those of the input
\* without such posts (and without their embedding rows), no pair is in a
\* narrative of fewer than two posts, no returned risk is for "noise", and
\* the returned risks are those of the input without such posts.
NoiseTakesNoPart ==
    /\ (op = "detect_from_posts" /\ Ended) =>
          /\ \A k \in 1..Len(all_pairs) :
                /\ all_pairs[k].narrative_id \notin {"noise", None, ""}
                /\ \A i \in Unclustered : posts[i].id \notin Range(all_pairs[k].evidence.post_ids)
                /\ Cardinality({i \in 1..Len(posts) :
                                   posts[i].narrative_id = all_pairs[k].narrative_id}) >= 2
          /\ all_pairs \in
                {AllPairs([k \in 1..Len(Kept) |-> posts[Kept[k]]],
                          IF embeddings = Nil THEN Nil
                          ELSE Some([k \in 1..Len(Kept) |-> embeddings[1][Kept[k]]]),
                          detector, seed) : seed \in HashSeeds}
    /\ (op = "calculate_risk" /\ pc = "returned") =>
          /\ \A r \in ReturnedRisks : r.narrative_id # "noise"
          /\ result[1] = SortByRiskDesc(
                             NarrativeRisks([k \in 1..Len(Kept) |-> posts[Kept[k]]],
                                            narratives, groups), <<>>)

\* C15 as stated: noise and unset posts take no part in coordination or risk
\* analysis, and neither does a narrative of fewer than two posts - it has no
\* pair and no returned risk.
C15_NoiseAndSmallNarrativesTakeNoPart ==
    /\ NoiseTakesNoPart
    /\ \A r \in ReturnedRisks :
          Cardinality({i \in 1..Len(posts) : posts[i].narrative_id = r.narrative_id}) >= 2

\* C15: posts marked "noise" or without narrative id take no part in
\* coordination or risk analysis, and a narrative of fewer than two posts
\* takes no part in coordination analysis: no pair has narrative_id "noise",
\* no such post is in any pair's evidence or changes any pair, no pair lies
\* in a narrative of fewer than two posts, and no risk is returned for
\* "noise".  (A narrative of exactly one post does get a risk.)
C15_NoiseTakesNoPart ==
    /\ NoiseTakesNoPart
    /\ \A r \in ReturnedRisks :
          Cardinality({i \in 1..Len(posts) : posts[i].narrative_id = r.narrative_id}) >= 1

\* A pair emitted for the first narrative from posts with embeddings, next
\* to a "noise" post and a post without narrative id that come before a
\* post of the pair in the list.
C15_Witness ==
    /\ op = "detect_from_posts"
    /\ pc = "returned"
    /\ all_pairs # <<>>
    /\ embeddings # Nil
    /\ \E i \in Unclustered : \E j \in Unclustered :
          /\ posts[i].narrative_id = "noise"
          /\ posts[j].narrative_id = None
          /\ \E k \in i..Len(posts) : k \notin Unclustered

\* ------------------------------------------------------------------------
\* The component functions, as the claims speak of them
\* ------------------------------------------------------------------------

\* The function has returned from the call on the posts.
Called(function) == op = function /\ pc = "returned"

\* C16: on an empty post list calculate_velocity_score,
\* calculate_foreign_domain_score, calculate_bot_score and
\* calculate_toxicity_score each return 0.0, and detect_from_posts returns
\* ([], []); none of them raises.
C16_EmptyInput ==
    posts = <<>> =>
       /\ \A f \in ComponentOps \ {"calculate_coordination_score"} :
             Called(f) => result = Some(Zero)
       /\ (op = "detect_from_posts" /\ pc # "ready") =>
             pc = "returned" /\ result = Some(<<<<>>, <<>>>>)

\* calculate_velocity_score has returned from the call on no posts.
C16_Witness == Called("calculate_velocity_score") /\ posts = <<>>

\* The seconds between the earliest and the latest of the posts.
Span ==
    LET ts == {posts[i].timestamp : i \in 1..Len(posts)}
    IN  (CHOOSE t \in ts : \A u \in ts : u <= t) - (CHOOSE t \in ts : \A u \in ts : t <= u)

\* C17: calculate_velocity_score returns 0.0 for fewer than two posts, 1.0
\* for two or more posts that span no time, and 1.0 when the posts per hour
\* over the span are ten or more.
C17_VelocityEdges ==
    Called("calculate_velocity_score") =>
       /\ Len(posts) < 2 => result = Some(Zero)
       /\ (Len(posts) >= 2 /\ Span = 0) => result = Some(One)
       /\ (Len(posts) >= 2 /\ Span > 0 /\ Len(posts) * 3600 >= 10 * Span) =>
             result = Some(One)

\* A returned velocity for posts that come at exactly ten an hour: two posts
\* 720 seconds apart.
C17_Witness ==
    /\ Called("calculate_velocity_score")
    /\ Len(posts) = 2
    /\ Span = 720

\* The narrative id and the total_authors of the coordination call.
TargetId == narratives[1].id
TotalAuthors == narratives[1].author_count

\* The groups that list the narrative of the call.
Listing == {k \in 1..Len(groups) : TargetId \in Range(groups[k].narrative_ids)}

\* A group with members and a positive score lists the narrative.
ListedByScoringGroup ==
    \E k \in Listing : groups[k].author_ids # <<>> /\ RLt(Zero, groups[k].score)

\* The score is 0.0 when no group lists the narrative or total_authors <= 1.
ZeroWithoutGroupsOrAuthors ==
    Called("calculate_coordination_score") =>
       ((Listing = {} \/ TotalAuthors <= 1) => result = Some(Zero))

\* C18 as stated: calculate_coordination_score returns 0.0 when no group
\* lists the narrative or total_authors <= 1, and a value above 0 when
\* total_authors >= 2 and a group with members and a positive score lists the
\* narrative.
C18_PositiveWheneverListed ==
    /\ ZeroWithoutGroupsOrAuthors
    /\ Called("calculate_coordination_score") =>
          ((TotalAuthors >= 2 /\ ListedByScoringGroup) => RLt(Zero, result[1]))

\* C18: calculate_coordination_score returns 0.0 when no group lists the
\* narrative or total_authors <= 1, and a value above 0 when total_authors is
\* between 2 and 10000 and a group with members and a positive score lists
\* the narrative (no score or size being negative); with more authors the
\* rounding to four decimals can leave 0.0.
C18_PositiveUpToTenThousandAuthors ==
    /\ ZeroWithoutGroupsOrAuthors
    /\ Called("calculate_coordination_score") =>
          ((TotalAuthors >= 2 /\ TotalAuthors <= 10000 /\ ListedByScoringGroup) =>
              RLt(Zero, result[1]))

\* A returned score for ten thousand authors and one group of score 0.0001
\* that lists the narrative, next to a group that does not.
C18_Witness ==
    /\ Called("calculate_coordination_score")
    /\ TotalAuthors = 10000
    /\ Cardinality(Listing) = 1
    /\ Len(groups) = 2
    /\ \E k \in Listing : groups[k].score = <<1, 10000>> /\ groups[k].author_ids # <<>>
    /\ RLt(Zero, result[1])

\* The distinct domains of the posts.
AllDomains == UNION {Range(posts[i].domains) : i \in 1..Len(posts)}

\* The top-level domain each domain of the foreign-score inputs ends in.
TldOf == [d \in {"a.com", "b.ru", "c.cn"} |->
             IF d = "a.com" THEN ".com" ELSE IF d = "b.ru" THEN ".ru" ELSE ".cn"]

\* The foreign TLDs in force: the given list, or the configured .ru, .cn, .ir
\* when none or an empty one is given.
TldsInForce ==
    IF tlds_given \in {Nil, Some(<<>>)} THEN {".ru", ".cn", ".ir"} ELSE Range(tlds_given[1])

\* The distinct domains that end in a foreign TLD.
ForeignDomains == {d \in AllDomains : TldOf[d] \in TldsInForce}

\* The score is 0.0 without a domain or without a foreign one, 1.0 when every
\* domain is foreign, and 0.5 for the domains a.com and b.ru under [.ru].
ForeignScoreEdges ==
    Called("calculate_foreign_domain_score") =>
       /\ (AllDomains = {} \/ ForeignDomains = {}) => result = Some(Zero)
       /\ (AllDomains # {} /\ ForeignDomains = AllDomains) => result = Some(One)
       /\ (AllDomains = {"a.com", "b.ru"} /\ tlds_given = Some(<<".ru">>)) =>
             result = Some(<<1, 2>>)

\* C19 as stated: calculate_foreign_domain_score equals the number of
\* distinct domains ending in a foreign TLD over the number of distinct
\* domains, with the values 0.0, 1.0 and 0.5 in the cases named.
C19_ForeignScoreIsRatio ==
    /\ ForeignScoreEdges
    /\ (Called("calculate_foreign_domain_score") /\ AllDomains # {}) =>
          result = Some(Rat(Cardinality(ForeignDomains), Cardinality(AllDomains)))

\* C19: calculate_foreign_domain_score equals the number of distinct domains
\* ending in a foreign TLD over the number of distinct domains, rounded to
\* four decimals, a domain in several posts counting once; it is 0.0 without
\* a domain or without a foreign one, 1.0 when every domain is foreign, and
\* 0.5 for the domains a.com and b.ru under [.ru].
C19_ForeignScoreIsRoundedRatio ==
    /\ ForeignScoreEdges
    /\ (Called("calculate_foreign_domain_score") /\ AllDomains # {}) =>
          result = Some(Round(Rat(Cardinality(ForeignDomains), Cardinality(AllDomains)), 4))

\* A returned score of 0.5 for the domains a.com and b.ru under [.ru], one
\* of the domains standing in two posts.
C19_Witness ==
    /\ Called("calculate_foreign_domain_score")
    /\ tlds_given = Some(<<".ru">>)
    /\ AllDomains = {"a.com", "b.ru"}
    /\ Len(posts) = 3
    /\ \A i \in 1..Len(posts) : posts[i].domains # <<>>
    /\ result = Some(<<1, 2>>)

\* The positions of the posts of author a.
Of(a) == {i \in 1..Len(posts) : posts[i].author_id = a}

\* The authors with two posts or more.
Qualifying == {a \in Range(AuthorIds) : Cardinality(Of(a)) >= 2}

\* The seconds between consecutive posts of author a, in time order.
Intervals(a) ==
    LET ts == Sorted(SelectSeq([i \in 1..Len(posts) |-> IF i \in Of(a) THEN posts[i].timestamp
                                                                ELSE -1],
                               LAMBDA t : t >= 0))
    IN  [k \in 1..(Len(ts) - 1) |-> ts[k + 1] - ts[k]]

\* The indicators of author a, in tenths: 3 for more than 20 posts an hour,
\* 3 for fewer distinct texts than half the posts among three posts or more,
\* 2 for intervals whose variance is under a tenth of their mean among three
\* posts or more, 2 for a link in more than four fifths of the posts; ten at
\* most.
Tenths(a) ==
    LET m == Cardinality(Of(a))
        d == Intervals(a)
        span == SumSeq(d)
        squares == SumSeq([k \in 1..Len(d) |-> d[k] * d[k]])
        rate == span > 0 /\ m * 3600 > 20 * span
        same == m >= 3 /\ 2 * Cardinality({posts[i].text : i \in Of(a)}) < m
        regular == m >= 3 /\ span > 0
                   /\ 10 * (Len(d) * squares - span * span) < Len(d) * span
        links == 5 * Cardinality({i \in Of(a) : posts[i].urls # <<>>}) > 4 * m
    IN  Min2(10, (IF rate THEN 3 ELSE 0) + (IF same THEN 3 ELSE 0)
                 + (IF regular THEN 2 ELSE 0) + (IF links THEN 2 ELSE 0))

\* The mean of the indicators over the qualifying authors.
MeanIndicators ==
    LET RECURSIVE Total(_)
        Total(S) == IF S = {} THEN 0
                    ELSE LET a == CHOOSE x \in S : TRUE IN Tenths(a) + Total(S \ {a})
    IN  Rat(Total(Qualifying), 10 * Cardinality(Qualifying))

\* Some author has three posts or more, all of one text.
SomeAuthorRepeats ==
    \E a \in Qualifying :
       Cardinality(Of(a)) >= 3 /\ Cardinality({posts[i].text : i \in Of(a)}) = 1

\* The score is 0.0 when no author has two posts, and above 0 when some
\* author has three posts or more of one text.
BotScoreEdges ==
    Called("calculate_bot_score") =>
       /\ Qualifying = {} => result = Some(Zero)
       /\ SomeAuthorRepeats => RLt(Zero, result[1])

\* C20 as stated: calculate_bot_score returns the mean, over the authors
\* with two posts or more, of their capped indicators, 0.0 when there is no
\* such author, and a score above 0 when an author has three posts or more
\* of one text.
C20_BotScoreIsMean ==
    /\ BotScoreEdges
    /\ (Called("calculate_bot_score") /\ Qualifying # {}) =>
          result = Some(MeanIndicators)

\* C20: calculate_bot_score returns the mean, over the authors with two
\* posts or more, of their capped indicators, rounded to four decimals, 0.0
\* when there is no such author, and a score above 0 when an author has
\* three posts or more of one text (the authors being few enough for the
\* rounding to leave it above 0).
C20_BotScoreIsRoundedMean ==
    /\ BotScoreEdges
    /\ (Called("calculate_bot_score") /\ Qualifying # {}) =>
          result = Some(Round(MeanIndicators, 4))

\* A returned score of 1.0 for one author with three posts of one text and
\* every indicator, next to an author with a single post who is ignored.
C20_Witness ==
    /\ Called("calculate_bot_score")
    /\ Cardinality(Qualifying) = 1
    /\ SomeAuthorRepeats
    /\ \E a \in Qualifying : Tenths(a) = 10
    /\ \E a \in Range(AuthorIds) : Cardinality(Of(a)) = 1
    /\ result = Some(One)

\* ------------------------------------------------------------------------
\* The evidence of _calculate_pair_score, as the claims speak of it
\* ------------------------------------------------------------------------

\* The posts that have a post of the other author within the time window.
Partnered == {posts[ij[1]].id : ij \in CrossNear} \cup {posts[ij[2]].id : ij \in CrossNear}

\* C21: a post pair of the two authors counts for the score and the evidence
\* if and only if its timestamps are at most the time window apart: the
\* evidence names exactly the posts that have a partner within the window and
\* the hashtags such partners share, the score is the combined score of such
\* a pair (0.0 without any), and time_delta_seconds is set exactly when there
\* is such a pair and then lies between 0 and the window.
C21_WithinWindowIffCounted ==
    (op = "calculate_pair_score" /\ pc = "returned") =>
       LET ev == result[1].evidence
       IN  /\ Range(ev.post_ids) = Partnered
           /\ Range(ev.shared_hashtags) =
                 UNION {Range(posts[ij[1]].hashtags) \cap Range(posts[ij[2]].hashtags) :
                           ij \in CrossNear}
           /\ IF CrossNear = {} THEN result[1].score = Zero
              ELSE \E ij \in CrossNear : result[1].score = Combined(ij)
           /\ ev.time_delta_seconds # Nil <=> CrossNear # {}
           /\ ev.time_delta_seconds # Nil =>
                 /\ ev.time_delta_seconds[1] >= 0
                 /\ ev.time_delta_seconds[1] <= detector.time_window

\* A returned evidence that names a post pair exactly one time window apart
\* and leaves out a post of the second author one second further away.
C21_Witness ==
    /\ op = "calculate_pair_score"
    /\ pc = "returned"
    /\ \E ij \in CrossNear :
          Abs(posts[ij[1]].timestamp - posts[ij[2]].timestamp) = detector.time_window
    /\ \E i \in 1..Len(posts) :
          /\ posts[i].author_id = "a2"
          /\ posts[i].id \notin Range(result[1].evidence.post_ids)
          /\ \E j \in 1..Len(posts) :
                /\ posts[j].author_id = "a1"
                /\ Abs(posts[i].timestamp - posts[j].timestamp) = detector.time_window + 1

\* The largest cosine similarity between a clustered post of author a and
\* one of author b in narrative n that lie within the time window; 0.0 for
\* every post pair when there are no embeddings.
MaxTextSimilarity(a, b, n) ==
    LET near == {ij \in (1..Len(posts)) \X (1..Len(posts)) :
                    /\ posts[ij[1]].author_id = a /\ posts[ij[1]].narrative_id = n
                    /\ posts[ij[2]].author_id = b /\ posts[ij[2]].narrative_id = n
                    /\ Abs(posts[ij[1]].timestamp - posts[ij[2]].timestamp)
                          <= detector.time_window}
        sim(ij) == IF embeddings = Nil THEN Zero
                   ELSE CosineSimilarity(embeddings[1][ij[1]], embeddings[1][ij[2]])
    IN  CHOOSE x \in {sim(ij) : ij \in near} : \A ij \in near : RLe(sim(ij), x)

\* C22: the text_similarity in the evidence of every emitted pair is the
\* largest text (embedding cosine) similarity over the pair's post pairs
\* within the time window, hence 0.0 when no embeddings are supplied.
C22_TextSimilarityIsMaxCosine ==
    (op = "detect_from_posts" /\ Ended) =>
       \A k \in 1..Len(all_pairs) :
          all_pairs[k].evidence.text_similarity =
             Some(MaxTextSimilarity(all_pairs[k].author1_id, all_pairs[k].author2_id,
                                    all_pairs[k].narrative_id))

\* No element stands twice in the list.
NoDuplicates(list) == Cardinality(Range(list)) = Len(list)

\* C23: in the evidence of every pair detect_from_posts emits, post_ids,
\* shared_domains and shared_hashtags hold no element twice.
C23_EvidenceListsDeduplicated ==
    (op = "detect_from_posts" /\ Ended) =>
       \A k \in 1..Len(all_pairs) :
          /\ NoDuplicates(all_pairs[k].evidence.post_ids)
          /\ NoDuplicates(all_pairs[k].evidence.shared_domains)
          /\ NoDuplicates(all_pairs[k].evidence.shared_hashtags)

\* An emitted pair of an author with one post and an author with two or
\* more: the one post, the domain and a hashtag are met in several post
\* pairs and named once.
C23_Witness ==
    /\ op = "detect_from_posts"
    /\ pc = "returned"
    /\ \E k \in 1..Len(all_pairs) :
          LET p == all_pairs[k]
          IN  /\ Len(PostsOf(p.author1_id, p.narrative_id)) = 1
              /\ Len(PostsOf(p.author2_id, p.narrative_id)) >= 2
              /\ Len(p.evidence.post_ids) >= 3
              /\ Len(p.evidence.shared_domains) = 1
              /\ Len(p.evidence.shared_hashtags) = 1

\* ------------------------------------------------------------------------
\* The order of a group's members, as the claims speak of it
\* ------------------------------------------------------------------------

\* The authors at most k pairs away from a.
RECURSIVE Ball(_, _, _)
Ball(a, k, pairs) ==
    IF k = 0 THEN {a}
    ELSE LET B == Ball(a, k - 1, pairs)
         IN  B \cup {b \in Endpoints(pairs) : \E c \in B : Paired(c, b, pairs)}

\* The graph distance from a to b, both in one component.
Distance(a, b, pairs) ==
    CHOOSE k \in 0..Cardinality(Endpoints(pairs)) :
        /\ b \in Ball(a, k, pairs)
        /\ \A j \in 0..(k - 1) : b \notin Ball(a, j, pairs)

\* The first author of the group in the insertion order of the adjacency map.
StartAuthor(g) ==
    LET keys == GraphKeys(all_pairs, <<>>)
        first == CHOOSE k \in 1..Len(keys) :
                    /\ keys[k] \in Members(g)
                    /\ \A j \in 1..(k - 1) : keys[j] \notin Members(g)
    IN  keys[first]

\* C24: in every returned group author_ids lists each member once, begins
\* with the component's start author (the first of its authors in the
\* insertion order of the adjacency map) and goes on in non-decreasing graph
\* distance from that start.
C24_MembersInBreadthFirstOrder ==
    Returned =>
        \A i \in 1..Len(groups) :
            LET ids == groups[i].author_ids
                start == StartAuthor(groups[i])
            IN  /\ NoDuplicates(ids)
                /\ ids[1] = start
                /\ \A j \in 1..(Len(ids) - 1) :
                      Distance(start, ids[j], all_pairs)
                          <= Distance(start, ids[j + 1], all_pairs)

\* A group of four whose third member is as near the start as the second
\* and whose fourth is one pair further.
C24_Witness ==
    /\ Returned
    /\ \E i \in 1..Len(groups) :
          LET ids == groups[i].author_ids
          IN  /\ Len(ids) = 4
              /\ [j \in 1..4 |-> Distance(ids[1], ids[j], all_pairs)] = <<0, 1, 1, 2>>

\* The place of an author among the keys of the adjacency map.
KeyIndex(a) ==
    CHOOSE k \in 1..Len(GraphKeys(all_pairs, <<>>)) : GraphKeys(all_pairs, <<>>)[k] = a

\* C27: the k groups of one _build_groups call carry pairwise distinct ids,
\* exactly coord_group_0000 .. coord_group_(k-1) with four digits, and a
\* group whose component was discovered earlier has the smaller number.
C27_IdsCountDiscoveries ==
    Returned =>
        /\ \A i \in 1..Len(groups) :
              /\ Head(groups[i].id) = "coord_group_"
              /\ Len(groups[i].id) = 5
        /\ {IdNumber(groups[i]) : i \in 1..Len(groups)} = 0..(Len(groups) - 1)
        /\ \A i, j \in 1..Len(groups) :
              /\ i # j => groups[i].id # groups[j].id
              /\ IdNumber(groups[i]) < IdNumber(groups[j])
                    <=> KeyIndex(StartAuthor(groups[i])) < KeyIndex(StartAuthor(groups[j]))

\* Two groups returned, the one discovered second standing first in the list.
C27_Witness ==
    /\ Returned
    /\ Len(groups) = 2
    /\ IdNumber(groups[1]) = 1
    /\ IdNumber(groups[2]) = 0

\* C28: the returned groups are pairwise disjoint, size is the number of
\* author_ids, which repeat no member, and every member is an endpoint of at
\* least one input pair.
C28_GroupsPartitionEndpoints ==
    Returned =>
        /\ \A i, j \in 1..Len(groups) :
              i # j => Members(groups[i]) \cap Members(groups[j]) = {}
        /\ \A i \in 1..Len(groups) :
              /\ groups[i].size = Len(groups[i].author_ids)
              /\ groups[i].size = Cardinality(Members(groups[i]))
              /\ \A a \in Members(groups[i]) :
                    \E k \in 1..Len(all_pairs) :
                        a \in {all_pairs[k].author1_id, all_pairs[k].author2_id}

\* Two groups returned from pairs that name all four authors.
C28_Witness ==
    /\ Returned
    /\ Len(groups) = 2
    /\ Members(groups[1]) \cup Members(groups[2]) = Range(AuthorIds)

\* ------------------------------------------------------------------------
\* The constructor's arguments, as the claims speak of them
\* ------------------------------------------------------------------------

\* The argument when one is given, the settings default when it is None.
GivenOr(x, default) == IF x = Nil THEN default ELSE x[1]

\* C29: a value given to the constructor for time_window_minutes,
\* similarity_threshold or min_group_size is the value the detector uses,
\* 0 and 0.0 included; the settings default is used only for None.
C29_ExplicitArgumentsUsed ==
    (op = "init" /\ pc = "returned") =>
        /\ detector.time_window = 60 * GivenOr(init_args[1], DefaultTimeWindowMinutes)
        /\ detector.similarity_threshold = GivenOr(init_args[2], DefaultThreshold)
        /\ detector.min_group_size = GivenOr(init_args[3], DefaultMinGroupSize)

\* ------------------------------------------------------------------------
\* The order of the statements of detect_from_posts, as the claims speak of it
\* ------------------------------------------------------------------------

\* The position is past line 92.
GroupsBuilt == pc \in {"groups", "returned", "raised"}

\* all_pairs holds, for the narrative, what pair detection yields on the
\* narrative's posts.
Detected(narrative_id) ==
    LET post_data == SelectSeq(Enumerate(posts),
                               LAMBDA pd : pd[1].narrative_id = narrative_id)
        found == SelectSeq(all_pairs, LAMBDA p : p.narrative_id = narrative_id)
    IN  IF Len(post_data) < 2 THEN found = <<>>
        ELSE \E seed \in HashSeeds :
                found = DetectPairsInNarrative(post_data, embeddings, narrative_id,
                                               detector, seed)

\* C25: detect_from_posts builds the groups once, after pair detection has
\* finished for every narrative, over the pairs of all narratives together,
\* and writes to the graph store only after the groups are built; so authors
\* linked only through pairs of different narratives share a component.
C25_GroupsOnceOverAllPairs ==
    /\ [](GroupsBuilt =>
            /\ \A n \in Range(NarrativeIds) : Detected(n)
            /\ Len(groups) = Cardinality({C \in ComponentsOf(all_pairs) :
                                  Cardinality(C) >= detector.min_group_size})
            /\ \A i \in 1..Len(groups) : Members(groups[i]) \in ComponentsOf(all_pairs))
    /\ [](neo4j # <<>> => pc \in {"returned", "raised"})
    /\ [][/\ all_pairs' # all_pairs => ~GroupsBuilt'
          /\ groups' # groups => ~GroupsBuilt /\ pc' = "groups"
          /\ GroupsBuilt => GroupsBuilt' /\ groups' = groups
          /\ neo4j' # neo4j => pc = "groups"]_vars

\* a1 and a2 are paired in one narrative only, a2 and a3 in the other only,
\* a1 and a3 in none: the call returns the three as one group.
C25_Witness ==
    /\ pc = "returned"
    /\ pending = <<>>
    /\ run_env = Nil
    /\ run_db = Nil
    /\ Len(all_pairs) = 2
    /\ all_pairs[1].narrative_id # all_pairs[2].narrative_id
    /\ Len(groups) = 1
    /\ Members(groups[1]) = {"a1", "a2", "a3"}
    /\ neo4j # <<>>

\* ------------------------------------------------------------------------
\* The run of run_all, as the claims speak of it
\* ------------------------------------------------------------------------

\* The names of the steps started so far, in the order of their rows.
StartedSteps == [k \in 1..Len(run_db.run_steps) |-> run_db.run_steps[k].step_name]

CompletedSteps == {k \in 1..Len(run_db.run_steps) : run_db.run_steps[k].status = "completed"}

\* run_all has ended: it returned, or typer.Exit left it.
Terminated == op = "run_all" /\ pc \in {"returned", "failed", "exited"}

\* C26: run_all takes the seven steps in the order ingest, enrich, cluster,
\* build-graph, detect-coordination, score-risk, explain; a step starts only
\* when the one before it has completed, none starts after a step has
\* raised, and the run is marked completed only when all seven have
\* completed.
C26_StepsInOrder ==
    /\ [](/\ StartedSteps = SubSeq(Steps, 1, Len(run_db.run_steps))
          /\ 1..(Len(run_db.run_steps) - 1) \subseteq CompletedSteps
          /\ run_db.runs = "completed" => CompletedSteps = 1..Len(Steps))
    /\ [][/\ run_db'.run_steps # run_db.run_steps =>
                /\ CompletedSteps = 1..Len(run_db.run_steps)
                /\ Len(run_db'.run_steps) = Len(run_db.run_steps) + 1
          /\ run_db'.runs = "completed" => CompletedSteps = 1..Len(Steps)]_vars

\* The seven steps have completed and the run is marked completed.
C26_Witness ==
    /\ Terminated
    /\ pc = "returned"
    /\ run_db.runs = "completed"
    /\ StartedSteps = Steps

\* C30: when run_all has ended and the run's row exists, its status is
\* completed or failed, never running.
C30_TerminatedRunNotRunning ==
    (Terminated /\ run_db.runs # None) => run_db.runs \in {"completed", "failed"}

============================================================================
